---- MODULE Spec2Model ----
(***************************************************************************)
(* A model of the MSP430 emulator of src/src/main.rs and src/src/utils.rs: *)
(* the register variants, the memory map, operand resolution, the three    *)
(* instruction formats, interrupt entry and program loading.               *)
(*                                                                         *)
(* The machine is the record m = [pc, sp, sr, numbered_registers, memory,  *)
(* overflow_checks, panic]; every method of Computer is an operator from   *)
(* machine records to machine records.  A Rust panic is the field panic:   *)
(* once it is set the rest of the method is skipped, as unwinding does.    *)
(* Plain +, - of the source panic when the build checks integer overflow   *)
(* (debug profile, the profile of cargo test) and wrap otherwise (release  *)
(* profile); overflow_checks says which build is running.                  *)
(***************************************************************************)
EXTENDS Integers, Sequences, FiniteSets, TLC

VARIABLES pc, sp, sr, numbered_registers, memory,   \* the fields of Computer
          overflow_checks,  \* whether the build checks integer overflow
          panic,            \* NoPanic, or why the process has panicked
          hist,             \* the operations done so far, each with the machine before it
          env,              \* what the caller may ask for: vectors, images, writes, budget
          running,          \* actually_run: the flag the Ctrl-C handler clears
          run_mode,         \* actually_run: Stopped, Running or Stepping(count)
          iters,            \* actually_run: the iterations since the last poll
          handle_commands,  \* actually_run: the flag the Stopped arm sets
          shmem,            \* the shared memory: mirror, command byte, arguments
          at,               \* actually_run: where the loop is, "off" without a loop
          trace             \* what the loop and its client have done so far

vars == <<pc, sp, sr, numbered_registers, memory, overflow_checks, panic, hist, env,
          running, run_mode, iters, handle_commands, shmem, at, trace>>

\* the variables of the run loop
loop_vars == <<running, run_mode, iters, handle_commands, shmem, at, trace>>

(***************************************************************************)
(* Fixed-width integers.                                                   *)
(***************************************************************************)
U16 == 2 ^ 16

RECURSIVE BitAnd(_, _)
\* a & b
BitAnd(a, b) ==
    IF a = 0 \/ b = 0 THEN 0
    ELSE (a % 2) * (b % 2) + 2 * BitAnd(a \div 2, b \div 2)

RECURSIVE BitOr(_, _)
\* a | b
BitOr(a, b) ==
    IF a = 0 THEN b
    ELSE IF b = 0 THEN a
    ELSE (IF a % 2 = 1 \/ b % 2 = 1 THEN 1 ELSE 0) + 2 * BitOr(a \div 2, b \div 2)

RECURSIVE BitXor(_, _)
\* a ^ b
BitXor(a, b) ==
    IF a = 0 THEN b
    ELSE IF b = 0 THEN a
    ELSE (((a % 2) + (b % 2)) % 2) + 2 * BitXor(a \div 2, b \div 2)

\* !a on a u16
BitNot16(a) == (U16 - 1) - a

\* a >> n
Shr(a, n) == a \div (2 ^ n)

\* a << n on a u16 (the bits shifted out are lost)
Shl16(a, n) == (a * (2 ^ n)) % U16

\* A u32 is the pair of its 16-bit halves: [hi, lo] stands for hi * 2^16 + lo.
\* x as u32, for an x the wrapping operations of the source can produce
WrapU32(x) == [hi |-> (x \div U16) % U16, lo |-> x % U16]

\* full & cutoff, for a cutoff below 2^16
U32And(full, cutoff) == BitAnd(full.lo, cutoff)

\* full > cutoff, for a cutoff below 2^16
U32Greater(full, cutoff) == full.hi > 0 \/ full.lo > cutoff

(***************************************************************************)
(* StatusFlags (bitflags!) and StatusRegister.                             *)
(***************************************************************************)
CARRY == 1
ZERO == 2
NEGATIVE == 4
GIE == 8
CPUOFF == 16
OVERFLOW == 256

\* StatusRegister::get_status
get_status(srv, flag) == BitAnd(srv, flag) # 0

\* set_status with the mask of a clear cut to a byte
set_status_byte_mask(srv, flag, set) ==
    IF set THEN BitOr(srv, flag) ELSE BitAnd(srv, BitAnd(BitNot16(flag), 255))

\* StatusRegister::set_status
set_status(srv, flag, set) ==
    IF set THEN BitOr(srv, flag) ELSE BitAnd(srv, BitNot16(flag))

(***************************************************************************)
(* The register variants: what a write stores.                             *)
(***************************************************************************)
\* BasicRegister::set_word, StatusRegister::set_word
BasicRegister_set_word(value) == value

\* BasicRegister::set_byte, StatusRegister::set_byte
BasicRegister_set_byte(value) == BitAnd(value, 255)

\* StatusRegister::set_word
StatusRegister_set_word(value) == value

\* StatusRegister::set_byte
StatusRegister_set_byte(value) == BitAnd(value, 255)

\* EvenRegister::set_word
EvenRegister_set_word(value) == BitAnd(value, 65534)

\* EvenRegister::set_byte
\* EvenRegister::set_byte without the mask
EvenRegister_set_byte_unmasked(value) == BitAnd(value, 255)

EvenRegister_set_byte(value) == BitAnd(value, 254)

(***************************************************************************)
(* MemoryMap: [u8; 0x10000].  The array is held as the function of its     *)
(* nonzero cells; a cell outside the domain holds 0.                       *)
(***************************************************************************)
\* MemoryMap::new, MemoryMap::reset
MemoryMap_new == << >>

\* MemoryMap::get_byte
MemoryMap_get_byte(mem, index) ==
    IF index \in DOMAIN mem THEN mem[index] ELSE 0

\* MemoryMap::set_byte
MemoryMap_set_byte(mem, index, value) ==
    IF value = 0
    THEN [x \in (DOMAIN mem) \ {index} |-> mem[x]]
    ELSE [x \in (DOMAIN mem) \cup {index} |-> IF x = index THEN value ELSE mem[x]]

\* MemoryMap::get_word
MemoryMap_get_word(mem, index) ==
    Shl16(MemoryMap_get_byte(mem, index), 8)
        + MemoryMap_get_byte(mem, BitAnd(index + 1, 65535))

\* set_word whose second cell is index + 1 without the wrap to 16 bits
MemoryMap_set_word_no_wrap(mem, index, value) ==
    MemoryMap_set_byte(
        MemoryMap_set_byte(mem, index, BitAnd(Shr(value, 8), 255)),
        index + 1, BitAnd(value, 255))

\* MemoryMap::set_word
MemoryMap_set_word(mem, index, value) ==
    MemoryMap_set_byte(
        MemoryMap_set_byte(mem, index, BitAnd(Shr(value, 8), 255)),
        BitAnd(index + 1, 65535), BitAnd(value, 255))

(***************************************************************************)
(* Panics and checked arithmetic.                                          *)
(***************************************************************************)
NoPanic == "none"

\* panic!(..), .unwrap() on an Err, an index out of bounds, a checked overflow
Panic(m, why) == [m EXCEPT !.panic = why]

\* a + b on u16 overflows and the build checks it
AddPanics(m, a, b) == m.overflow_checks /\ a + b >= U16

\* a + b on u16 in a build that does not check it
AddWraps(a, b) == (a + b) % U16

(***************************************************************************)
(* Computer: the register file.                                            *)
(***************************************************************************)
\* Computer::new
Computer_new(checks) ==
    [pc |-> 0, sp |-> 0, sr |-> 0,
     numbered_registers |-> [i \in 0..11 |-> 0],
     memory |-> MemoryMap_new,
     overflow_checks |-> checks,
     panic |-> NoPanic]

\* Computer::reset
reset(m) ==
    [m EXCEPT !.memory = MemoryMap_new,
              !.pc = EvenRegister_set_word(0),
              !.sp = EvenRegister_set_word(0),
              !.sr = StatusRegister_set_word(0),
              !.numbered_registers = [i \in 0..11 |-> BasicRegister_set_word(0)]]

\* Computer::get_register(id).get_word()
get_register_word(m, id) ==
    IF id = 0 THEN m.pc
    ELSE IF id = 1 THEN m.sp
    ELSE IF id = 2 THEN m.sr
    ELSE IF id = 3 THEN 0
    ELSE m.numbered_registers[id - 4]

\* Computer::get_register(id).get_byte()
get_register_byte(m, id) == BitAnd(get_register_word(m, id), 255)

\* Computer::get_register(id).set_word(value)
set_register_word(m, id, value) ==
    IF id = 0 THEN [m EXCEPT !.pc = EvenRegister_set_word(value)]
    ELSE IF id = 1 THEN [m EXCEPT !.sp = EvenRegister_set_word(value)]
    ELSE IF id = 2 THEN [m EXCEPT !.sr = StatusRegister_set_word(value)]
    ELSE IF id = 3 THEN m
    ELSE [m EXCEPT !.numbered_registers[id - 4] = BasicRegister_set_word(value)]

\* set_byte that keeps the high byte of a general-purpose register
set_register_byte_keeps_high(m, id, value) ==
    IF id = 0 THEN [m EXCEPT !.pc = EvenRegister_set_byte(value)]
    ELSE IF id = 1 THEN [m EXCEPT !.sp = EvenRegister_set_byte(value)]
    ELSE IF id = 2 THEN [m EXCEPT !.sr = StatusRegister_set_byte(value)]
    ELSE IF id = 3 THEN m
    ELSE [m EXCEPT !.numbered_registers[id - 4] =
                       (@ \div 256) * 256 + BasicRegister_set_byte(value)]

\* Computer::get_register(id).set_byte(value)
set_register_byte(m, id, value) ==
    IF id = 0 THEN [m EXCEPT !.pc = EvenRegister_set_byte(value)]
    ELSE IF id = 1 THEN [m EXCEPT !.sp = EvenRegister_set_byte(value)]
    ELSE IF id = 2 THEN [m EXCEPT !.sr = StatusRegister_set_byte(value)]
    ELSE IF id = 3 THEN m
    ELSE [m EXCEPT !.numbered_registers[id - 4] = BasicRegister_set_byte(value)]

(***************************************************************************)
(* WriteTargets: VOID, REGISTER(register), MEMORY(address).                *)
(***************************************************************************)
VOID == [kind |-> "VOID", register |-> 0, address |-> 0]

\* RegisterWriteTarget::new
RegisterWriteTarget_new(reg) == [kind |-> "REGISTER", register |-> reg, address |-> 0]

\* MemoryWriteTarget::new
MemoryWriteTarget_new(address) == [kind |-> "MEMORY", register |-> 0, address |-> address]

\* WriteTargets::set_word
WriteTargets_set_word(wt, value, m) ==
    IF wt.kind = "VOID" THEN m
    ELSE IF wt.kind = "REGISTER" THEN set_register_word(m, wt.register, value)
    ELSE [m EXCEPT !.memory = MemoryMap_set_word(@, wt.address, value)]

\* WriteTargets::set_byte
WriteTargets_set_byte(wt, value, m) ==
    IF wt.kind = "VOID" THEN m
    ELSE IF wt.kind = "REGISTER" THEN set_register_byte(m, wt.register, value)
    ELSE [m EXCEPT !.memory = MemoryMap_set_byte(@, wt.address, value)]

\* the write-back at the end of _execute_single_operand and _execute_double_operand
write_back(wt, value, bw, m) ==
    IF bw THEN WriteTargets_set_byte(wt, BitAnd(value, 255), m)
    ELSE WriteTargets_set_word(wt, value, m)

(***************************************************************************)
(* Computer::_push and Computer::interrupt.                                *)
(***************************************************************************)
\* the stack pointer word _push computes before it is stored
push_sp_word(sp_word) ==
    IF sp_word <= 1 THEN sp_word + (65535 - 2) ELSE sp_word - 2

\* Computer::_push
push(m, value, bw) ==
    LET sp_word == push_sp_word(m.sp)
        m1 == [m EXCEPT !.sp = EvenRegister_set_word(sp_word)]
    IN  IF bw
        THEN [m1 EXCEPT !.memory = MemoryMap_set_byte(@, sp_word + 1, BitAnd(value, 255))]
        ELSE [m1 EXCEPT !.memory = MemoryMap_set_word(@, sp_word, value)]

\* interrupt that reads the vector before it pushes
interrupt_vector_first(m, id) ==
    IF get_status(m.sr, GIE)
    THEN LET handler == MemoryMap_get_word(m.memory, id)
             m1 == push(m, m.pc, FALSE)
             m2 == push(m1, m1.sr, FALSE)
             m3 == [m2 EXCEPT !.sr = StatusRegister_set_word(0)]
         IN  [m3 EXCEPT !.pc = EvenRegister_set_word(handler)]
    ELSE m

\* interrupt that does not look at GIE
interrupt_unmasked(m, id) ==
    LET m1 == push(m, m.pc, FALSE)
        m2 == push(m1, m1.sr, FALSE)
        m3 == [m2 EXCEPT !.sr = StatusRegister_set_word(0)]
    IN  [m3 EXCEPT !.pc = EvenRegister_set_word(MemoryMap_get_word(m3.memory, id))]

\* interrupt that leaves SR as it is
interrupt_keeps_sr(m, id) ==
    IF get_status(m.sr, GIE)
    THEN LET m1 == push(m, m.pc, FALSE)
             m2 == push(m1, m1.sr, FALSE)
         IN  [m2 EXCEPT !.pc = EvenRegister_set_word(MemoryMap_get_word(m2.memory, id))]
    ELSE m

\* Computer::interrupt
interrupt(m, id) ==
    IF get_status(m.sr, GIE)
    THEN LET m1 == push(m, m.pc, FALSE)
             m2 == push(m1, m1.sr, FALSE)
             m3 == [m2 EXCEPT !.sr = StatusRegister_set_word(0)]
         IN  [m3 EXCEPT !.pc = EvenRegister_set_word(MemoryMap_get_word(m3.memory, id))]
    ELSE m

(***************************************************************************)
(* Computer::_execute_jump.                                                *)
(***************************************************************************)
\* the offset of a jump word read as a 10-bit two's complement number
jump_offset_twos_complement(instruction) ==
    LET offset == BitAnd(instruction, 1023)
    IN  IF offset >= 512 THEN offset - 1024 ELSE offset

\* the signed offset of a jump word
jump_offset(instruction) ==
    LET offset == BitAnd(instruction, 1023)
    IN  IF offset > 512 THEN offset - 1024 ELSE offset

\* the match on the condition with the tests of JGE and JL exchanged
jump_returns_jge_as_jl(srv, condition) ==
    IF condition = 0 THEN get_status(srv, ZERO)
    ELSE IF condition = 1 THEN ~get_status(srv, ZERO)
    ELSE IF condition = 2 THEN get_status(srv, CARRY)
    ELSE IF condition = 3 THEN ~get_status(srv, CARRY)
    ELSE IF condition = 4 THEN ~get_status(srv, NEGATIVE)
    ELSE IF condition = 5 THEN ~(get_status(srv, NEGATIVE) # get_status(srv, OVERFLOW))
    ELSE IF condition = 6 THEN get_status(srv, NEGATIVE) # get_status(srv, OVERFLOW)
    ELSE FALSE

\* whether the match on the condition returns before the jump is made
jump_returns(srv, condition) ==
    IF condition = 0 THEN get_status(srv, ZERO)
    ELSE IF condition = 1 THEN ~get_status(srv, ZERO)
    ELSE IF condition = 2 THEN get_status(srv, CARRY)
    ELSE IF condition = 3 THEN ~get_status(srv, CARRY)
    ELSE IF condition = 4 THEN ~get_status(srv, NEGATIVE)
    ELSE IF condition = 5 THEN get_status(srv, NEGATIVE) # get_status(srv, OVERFLOW)
    ELSE IF condition = 6 THEN ~(get_status(srv, NEGATIVE) # get_status(srv, OVERFLOW))
    ELSE FALSE

\* Computer::_execute_jump
execute_jump(m, instruction) ==
    LET offset == jump_offset(instruction)
        condition == BitAnd(Shr(instruction, 10), 7)
    IN  IF jump_returns(m.sr, condition) THEN m
        ELSE [m EXCEPT !.pc = EvenRegister_set_word((m.pc + offset * 2) % U16)]

(***************************************************************************)
(* Computer::_get_src: the value, the write target and the machine after   *)
(* the operand has been resolved.                                          *)
(***************************************************************************)
\* the constants with -1 always a word
constant_generator_word_only(src_reg, as_, bw) ==
    IF src_reg = 2
    THEN (IF as_ = 2 THEN 4 ELSE IF as_ = 3 THEN 8 ELSE 0)
    ELSE IF as_ = 0 THEN 0
    ELSE IF as_ = 1 THEN 1
    ELSE IF as_ = 2 THEN 2
    ELSE 65535

\* the constant of the constant generator (CG, or SR outside modes 0 and 1)
constant_generator(src_reg, as_, bw) ==
    IF src_reg = 2
    THEN (IF as_ = 2 THEN 4 ELSE IF as_ = 3 THEN 8 ELSE 0)
    ELSE IF as_ = 0 THEN 0
    ELSE IF as_ = 1 THEN 1
    ELSE IF as_ = 2 THEN 2
    ELSE IF bw THEN 255 ELSE 65535

\* the step of the autoincrement mode without the extra 1 of PC and SP
autoincrement_no_extra(src_reg, bw) == IF bw THEN 1 ELSE 2

\* the step of the autoincrement mode
autoincrement(src_reg, bw) ==
    IF bw THEN 1 + (IF src_reg = 0 \/ src_reg = 1 THEN 1 ELSE 0) ELSE 2

\* the read of a memory operand, byte or word
read_operand(m, address, bw) ==
    IF bw THEN MemoryMap_get_byte(m.memory, address)
    ELSE MemoryMap_get_word(m.memory, address)

\* _get_src whose Indexed Mode adds the register whatever it is
get_src_no_absolute(m, src_reg, as_, bw) ==
    IF src_reg = 3 \/ (src_reg = 2 /\ as_ > 1)
    THEN [src |-> constant_generator(src_reg, as_, bw), wt |-> VOID, m |-> m]
    ELSE IF as_ = 0
    THEN [src |-> IF bw THEN get_register_byte(m, src_reg)
                  ELSE get_register_word(m, src_reg),
          wt |-> RegisterWriteTarget_new(src_reg), m |-> m]
    ELSE IF as_ = 1
    THEN LET offset == AddWraps(MemoryMap_get_word(m.memory, m.pc),
                                get_register_word(m, src_reg))
             m1 == [m EXCEPT !.pc = EvenRegister_set_word(AddWraps(m.pc, 2))]
         IN  [src |-> read_operand(m1, offset, bw),
              wt |-> MemoryWriteTarget_new(offset), m |-> m1]
    ELSE IF as_ = 2
    THEN LET target == get_register_word(m, src_reg)
         IN  [src |-> read_operand(m, target, bw),
              wt |-> MemoryWriteTarget_new(target), m |-> m]
    ELSE LET mem_target == get_register_word(m, src_reg)
         IN  [src |-> read_operand(m, mem_target, bw),
              wt |-> MemoryWriteTarget_new(mem_target),
              m |-> set_register_word(m, src_reg,
                        AddWraps(mem_target, autoincrement(src_reg, bw)))]

\* Computer::_get_src
get_src(m, src_reg, as_, bw) ==
    IF src_reg = 3 \/ (src_reg = 2 /\ as_ > 1)
    THEN [src |-> constant_generator(src_reg, as_, bw), wt |-> VOID, m |-> m]
    ELSE IF as_ = 0
    THEN [src |-> IF bw THEN get_register_byte(m, src_reg)
                  ELSE get_register_word(m, src_reg),
          wt |-> RegisterWriteTarget_new(src_reg), m |-> m]
    ELSE IF as_ = 1
    THEN LET offset == IF src_reg = 2
                       THEN MemoryMap_get_word(m.memory, m.pc)
                       ELSE AddWraps(MemoryMap_get_word(m.memory, m.pc),
                                     get_register_word(m, src_reg))
             m1 == [m EXCEPT !.pc = EvenRegister_set_word(AddWraps(m.pc, 2))]
         IN  [src |-> read_operand(m1, offset, bw),
              wt |-> MemoryWriteTarget_new(offset), m |-> m1]
    ELSE IF as_ = 2
    THEN LET target == get_register_word(m, src_reg)
         IN  [src |-> read_operand(m, target, bw),
              wt |-> MemoryWriteTarget_new(target), m |-> m]
    ELSE LET mem_target == get_register_word(m, src_reg)
         IN  [src |-> read_operand(m, mem_target, bw),
              wt |-> MemoryWriteTarget_new(mem_target),
              m |-> set_register_word(m, src_reg,
                        AddWraps(mem_target, autoincrement(src_reg, bw)))]

(***************************************************************************)
(* Computer::_execute_single_operand.                                      *)
(***************************************************************************)
RRC == 0
SWPB == 1
RRA == 2
SXT == 3
PUSH == 4
CALL == 5
RETI == 6

\* the fields of a single-operand word
single_opcode(instruction) == BitAnd(Shr(instruction, 7), 7)
single_src_reg(instruction) == BitAnd(instruction, 15)
single_as(instruction) == BitAnd(Shr(instruction, 4), 3)
single_bw(instruction) == BitAnd(Shr(instruction, 6), 1) = 1

\* an RRC arm that puts the carry in bit 15 whatever the mode
rrc_arm_carry_in_bit_15(m, src, bw_num) ==
    LET carry == BitAnd(src, 1) = 1
        res == BitOr(Shr(src, 1),
                     Shl16(IF get_status(m.sr, CARRY) THEN 1 ELSE 0, 15))
        s1 == set_status(m.sr, CARRY, carry)
        s2 == set_status(s1, NEGATIVE, BitAnd(Shr(res, bw_num), 1) = 1)
        s3 == set_status(s2, ZERO, res = 0)
        s4 == set_status(s3, OVERFLOW, FALSE)
    IN  [src |-> res, m |-> [m EXCEPT !.sr = s4]]

\* the RRC arm: [src, m]
rrc_arm(m, src, bw_num) ==
    LET carry == BitAnd(src, 1) = 1
        res == BitOr(Shr(src, 1),
                     Shl16(IF get_status(m.sr, CARRY) THEN 1 ELSE 0, bw_num))
        s1 == set_status(m.sr, CARRY, carry)
        s2 == set_status(s1, NEGATIVE, BitAnd(Shr(res, bw_num), 1) = 1)
        s3 == set_status(s2, ZERO, res = 0)
        s4 == set_status(s3, OVERFLOW, FALSE)
    IN  [src |-> res, m |-> [m EXCEPT !.sr = s4]]

\* the RRA arm: [src, m]
rra_arm(m, src, bw, bw_num) ==
    LET s1 == set_status(m.sr, CARRY, BitAnd(src, 1) = 1)
        msb_to_or == BitAnd(src, IF bw THEN 128 ELSE 32768)
        res == BitOr(Shr(src, 1), msb_to_or)
        s2 == set_status(s1, NEGATIVE, BitAnd(Shr(res, bw_num), 1) = 1)
        s3 == set_status(s2, ZERO, res = 0)
        s4 == set_status(s3, OVERFLOW, FALSE)
    IN  [src |-> res, m |-> [m EXCEPT !.sr = s4]]

\* the SXT arm: [src, m]
sxt_arm(m, src, bw) ==
    IF bw THEN [src |-> src, m |-> m]
    ELSE LET low == BitAnd(src, 255)
             neg == BitAnd(Shr(low, 7), 1) = 1
             res == IF neg THEN BitOr(low, 65280) ELSE low
             s1 == set_status(m.sr, NEGATIVE, neg)
             s2 == set_status(s1, ZERO, res = 0)
             s3 == set_status(s2, CARRY, res # 0)
             s4 == set_status(s3, OVERFLOW, FALSE)
         IN  [src |-> res, m |-> [m EXCEPT !.sr = s4]]

\* a CALL arm that sets PC before it stores it
call_arm_target_stored(m, src) ==
    LET m1 == [m EXCEPT !.sp = EvenRegister_set_word((m.sp - 2) % U16)]
        m2 == [m1 EXCEPT !.pc = EvenRegister_set_word(src)]
    IN  [m2 EXCEPT !.memory = MemoryMap_set_word(@, m2.sp, m2.pc)]

\* the CALL arm in word mode: the machine after the call
call_arm(m, src) ==
    LET m1 == [m EXCEPT !.sp = EvenRegister_set_word((m.sp - 2) % U16)]
        m2 == [m1 EXCEPT !.memory = MemoryMap_set_word(@, m1.sp, m1.pc)]
    IN  [m2 EXCEPT !.pc = EvenRegister_set_word(src)]

\* the RETI arm: pop SR, pop PC
reti_arm(m) ==
    LET m1 == [m EXCEPT !.sr = StatusRegister_set_word(MemoryMap_get_word(m.memory, m.sp))]
    IN  IF AddPanics(m1, m1.sp, 2) THEN Panic(m1, "overflow")
        ELSE LET m2 == [m1 EXCEPT !.sp = EvenRegister_set_word(AddWraps(m1.sp, 2))]
                 m3 == [m2 EXCEPT !.pc = EvenRegister_set_word(
                                            MemoryMap_get_word(m2.memory, m2.sp))]
             IN  IF AddPanics(m3, m3.sp, 2) THEN Panic(m3, "overflow")
                 ELSE [m3 EXCEPT !.sp = EvenRegister_set_word(AddWraps(m3.sp, 2))]

\* Computer::_execute_single_operand
execute_single_operand(m, instruction) ==
    LET opcode == single_opcode(instruction)
        src_reg == single_src_reg(instruction)
        as_ == single_as(instruction)
        bw == single_bw(instruction)
        bw_num == IF bw THEN 7 ELSE 15
        g == get_src(m, src_reg, as_, bw)
    IN  IF opcode > RETI THEN Panic(g.m, "invalid_opcode")
        ELSE IF opcode = PUSH THEN push(g.m, g.src, bw)
        ELSE IF opcode = CALL /\ ~bw THEN call_arm(g.m, g.src)
        ELSE IF opcode = RETI
        THEN LET r == reti_arm(g.m)
             IN  IF r.panic # NoPanic THEN r ELSE write_back(g.wt, g.src, bw, r)
        ELSE LET a == IF opcode = RRC THEN rrc_arm(g.m, g.src, bw_num)
                      ELSE IF opcode = SWPB
                      THEN [src |-> IF bw THEN g.src
                                    ELSE BitOr(Shr(BitAnd(g.src, 65280), 8),
                                               Shl16(BitAnd(g.src, 255), 8)),
                            m |-> g.m]
                      ELSE IF opcode = RRA THEN rra_arm(g.m, g.src, bw, bw_num)
                      ELSE IF opcode = SXT THEN sxt_arm(g.m, g.src, bw)
                      ELSE [src |-> g.src, m |-> g.m]
             IN  write_back(g.wt, a.src, bw, a.m)

(***************************************************************************)
(* Computer::_set_flags and Computer::_execute_double_operand.             *)
(***************************************************************************)
MOV == 0
ADD == 1
ADDC == 2
SUBC == 3
SUB == 4
CMP == 5
DADD == 6
BIT == 7
BIC == 8
BIS == 9
XOR == 10
AND == 11

\* the overflow predicate of the comment of _set_flags: the operands have the
\* same sign and the result has the other
overflow_predicate_documented(src, prev_dst, dst, byte_int) ==
    (BitAnd(Shr(prev_dst, byte_int), 1) = BitAnd(Shr(src, byte_int), 1))
        /\ (BitAnd(Shr(prev_dst, byte_int), 1) # BitAnd(Shr(dst, byte_int), 1))

\* the overflow predicate of _set_flags
overflow_predicate(src, prev_dst, dst, byte_int) ==
    (prev_dst = BitAnd(Shr(src, byte_int), 1))
        /\ (BitAnd(Shr(prev_dst, byte_int), 1) # BitAnd(Shr(dst, byte_int), 1))

\* _set_flags with CARRY set from the mode's maximum on
set_flags_carry_at_cutoff(srv, src, prev_dst, full_dst, dst, byte_mode) ==
    LET byte_int == IF byte_mode THEN 7 ELSE 15
        dst_sign == BitAnd(Shr(dst, byte_int), 1)
        s1 == set_status(srv, ZERO, dst = 0)
        s2 == set_status(s1, NEGATIVE, dst_sign = 1)
        s3 == set_status(s2, CARRY, U32Greater(full_dst, IF byte_mode THEN 254 ELSE 65534))
    IN  set_status(s3, OVERFLOW, overflow_predicate(src, prev_dst, dst, byte_int))

\* Computer::_set_flags: the new status word
set_flags(srv, src, prev_dst, full_dst, dst, byte_mode) ==
    LET byte_int == IF byte_mode THEN 7 ELSE 15
        dst_sign == BitAnd(Shr(dst, byte_int), 1)
        s1 == set_status(srv, ZERO, dst = 0)
        s2 == set_status(s1, NEGATIVE, dst_sign = 1)
        s3 == set_status(s2, CARRY, U32Greater(full_dst, IF byte_mode THEN 255 ELSE 65535))
    IN  set_status(s3, OVERFLOW, overflow_predicate(src, prev_dst, dst, byte_int))

\* the fields of a double-operand word
double_opcode(instruction) == BitAnd(Shr(instruction, 12), 15)
double_src_reg(instruction) == BitAnd(Shr(instruction, 8), 15)
double_ad(instruction) == BitAnd(Shr(instruction, 7), 1)
double_bw(instruction) == BitAnd(Shr(instruction, 6), 1) = 1
double_as(instruction) == BitAnd(Shr(instruction, 4), 3)
double_dst_reg(instruction) == BitAnd(instruction, 15)

\* the destination read: [dst, wt, m], m.panic set when the offset sum overflows
get_dst(m, dst_reg, ad, bw) ==
    IF ad = 0
    THEN [dst |-> IF bw THEN get_register_byte(m, dst_reg)
                  ELSE get_register_word(m, dst_reg),
          wt |-> RegisterWriteTarget_new(dst_reg), m |-> m]
    ELSE LET word == MemoryMap_get_word(m.memory, m.pc)
             reg == get_register_word(m, dst_reg)
             offset == AddWraps(word, reg)
         IN  IF AddPanics(m, word, reg) \/ AddPanics(m, m.pc, 2)
             THEN [dst |-> 0, wt |-> VOID, m |-> Panic(m, "overflow")]
             ELSE LET m1 == [m EXCEPT !.pc = EvenRegister_set_word(AddWraps(m.pc, 2))]
                  IN  [dst |-> read_operand(m1, offset, bw),
                       wt |-> MemoryWriteTarget_new(offset), m |-> m1]

\* the arithmetic result with an ADDC that leaves the carry out
full_result_addc_no_carry(opc, src, dst, carry) ==
    IF opc = ADD THEN WrapU32(dst + src)
    ELSE IF opc = ADDC THEN WrapU32(dst + src)
    ELSE IF opc = SUBC THEN WrapU32(dst - src - 1 + carry)
    ELSE WrapU32(dst - src)

\* the arithmetic result with a SUBC that subtracts the carry
full_result_subc_minus_carry(opc, src, dst, carry) ==
    IF opc = ADD THEN WrapU32(dst + src)
    ELSE IF opc = ADDC THEN WrapU32(dst + src + carry)
    ELSE IF opc = SUBC THEN WrapU32(dst - src - carry)
    ELSE WrapU32(dst - src)

\* the arithmetic result of ADD, ADDC, SUBC, SUB, CMP before it is cut to the mode
full_result(opc, src, dst, carry) ==
    IF opc = ADD THEN WrapU32(dst + src)
    ELSE IF opc = ADDC THEN WrapU32(dst + src + carry)
    ELSE IF opc = SUBC THEN WrapU32(dst - src - 1 + carry)
    ELSE WrapU32(dst - src)

\* the match on the opcode with a BIS that sets the flags as AND does
double_arm_bis_flags(opc, srv, src, dst, bw) ==
    LET byte_int == IF bw THEN 7 ELSE 15
        res == BitOr(dst, src)
        s1 == set_status(srv, NEGATIVE, BitAnd(Shr(res, byte_int), 1) = 1)
        s2 == set_status(s1, ZERO, res = 0)
        s3 == set_status(s2, CARRY, res # 0)
    IN  IF opc = MOV THEN [dst |-> src, sr |-> srv, no_write |-> FALSE]
        ELSE IF opc = BIC
        THEN [dst |-> BitAnd(dst, BitNot16(src)), sr |-> srv, no_write |-> FALSE]
        ELSE [dst |-> res, sr |-> set_status(s3, OVERFLOW, FALSE), no_write |-> FALSE]

\* the match on the opcode with a CMP that writes the difference as SUB does
double_arm_cmp_writes(opc, srv, src, dst, bw) ==
    LET byte_int == IF bw THEN 7 ELSE 15
        cutoff == IF bw THEN 255 ELSE 65535
        carry == IF get_status(srv, CARRY) THEN 1 ELSE 0
    IN  IF opc = MOV THEN [dst |-> src, sr |-> srv, no_write |-> FALSE]
        ELSE IF opc \in {ADD, ADDC, SUBC, SUB, CMP}
        THEN LET full_dst == full_result(opc, src, dst, carry)
                 res == U32And(full_dst, cutoff)
             IN  [dst |-> res,
                  sr |-> set_flags(srv, src, dst, full_dst, res, bw),
                  no_write |-> FALSE]
        ELSE IF opc = BIT
        THEN LET full_dst == WrapU32(BitAnd(dst, src))
                 fake_dst == U32And(full_dst, cutoff)
                 s1 == set_flags(srv, src, dst, full_dst, fake_dst, bw)
                 s2 == set_status(s1, CARRY, ~get_status(s1, ZERO))
             IN  [dst |-> dst, sr |-> set_status(s2, OVERFLOW, FALSE), no_write |-> TRUE]
        ELSE IF opc = BIC
        THEN [dst |-> BitAnd(dst, BitNot16(src)), sr |-> srv, no_write |-> FALSE]
        ELSE IF opc = BIS
        THEN [dst |-> BitOr(dst, src), sr |-> srv, no_write |-> FALSE]
        ELSE IF opc = XOR
        THEN LET res == BitXor(dst, src)
                 s1 == set_status(srv, NEGATIVE, BitAnd(Shr(res, byte_int), 1) = 1)
                 s2 == set_status(s1, ZERO, res = 0)
                 s3 == set_status(s2, CARRY, res # 0)
             IN  [dst |-> res,
                  sr |-> set_status(s3, OVERFLOW,
                             BitAnd(Shr(src, byte_int), 1) = 1
                                 /\ BitAnd(Shr(dst, byte_int), 1) = 1),
                  no_write |-> FALSE]
        ELSE LET res == BitAnd(dst, src)
                 s1 == set_status(srv, NEGATIVE, BitAnd(Shr(res, byte_int), 1) = 1)
                 s2 == set_status(s1, ZERO, res = 0)
                 s3 == set_status(s2, CARRY, res # 0)
             IN  [dst |-> res, sr |-> set_status(s3, OVERFLOW, FALSE), no_write |-> FALSE]

\* the match on the opcode: [dst, sr, no_write]
double_arm(opc, srv, src, dst, bw) ==
    LET byte_int == IF bw THEN 7 ELSE 15
        cutoff == IF bw THEN 255 ELSE 65535
        carry == IF get_status(srv, CARRY) THEN 1 ELSE 0
    IN  IF opc = MOV THEN [dst |-> src, sr |-> srv, no_write |-> FALSE]
        ELSE IF opc \in {ADD, ADDC, SUBC, SUB, CMP}
        THEN LET full_dst == full_result(opc, src, dst, carry)
                 res == U32And(full_dst, cutoff)
             IN  [dst |-> IF opc = CMP THEN dst ELSE res,
                  sr |-> set_flags(srv, src, dst, full_dst, res, bw),
                  no_write |-> opc = CMP]
        ELSE IF opc = BIT
        THEN LET full_dst == WrapU32(BitAnd(dst, src))
                 fake_dst == U32And(full_dst, cutoff)
                 s1 == set_flags(srv, src, dst, full_dst, fake_dst, bw)
                 s2 == set_status(s1, CARRY, ~get_status(s1, ZERO))
             IN  [dst |-> dst, sr |-> set_status(s2, OVERFLOW, FALSE), no_write |-> TRUE]
        ELSE IF opc = BIC
        THEN [dst |-> BitAnd(dst, BitNot16(src)), sr |-> srv, no_write |-> FALSE]
        ELSE IF opc = BIS
        THEN [dst |-> BitOr(dst, src), sr |-> srv, no_write |-> FALSE]
        ELSE IF opc = XOR
        THEN LET res == BitXor(dst, src)
                 s1 == set_status(srv, NEGATIVE, BitAnd(Shr(res, byte_int), 1) = 1)
                 s2 == set_status(s1, ZERO, res = 0)
                 s3 == set_status(s2, CARRY, res # 0)
             IN  [dst |-> res,
                  sr |-> set_status(s3, OVERFLOW,
                             BitAnd(Shr(src, byte_int), 1) = 1
                                 /\ BitAnd(Shr(dst, byte_int), 1) = 1),
                  no_write |-> FALSE]
        ELSE LET res == BitAnd(dst, src)
                 s1 == set_status(srv, NEGATIVE, BitAnd(Shr(res, byte_int), 1) = 1)
                 s2 == set_status(s1, ZERO, res = 0)
                 s3 == set_status(s2, CARRY, res # 0)
             IN  [dst |-> res, sr |-> set_status(s3, OVERFLOW, FALSE), no_write |-> FALSE]

\* _execute_double_operand whose DADD arm adds as ADD does
execute_double_operand_dadd_as_add(m, instruction) ==
    LET opcode == double_opcode(instruction)
        bw == double_bw(instruction)
        g == get_src(m, double_src_reg(instruction), double_as(instruction), bw)
        d == get_dst(g.m, double_dst_reg(instruction), double_ad(instruction), bw)
    IN  IF d.m.panic # NoPanic THEN d.m
        ELSE IF opcode < 4 THEN Panic(d.m, "invalid_opcode")
        ELSE LET a == double_arm(IF opcode - 4 = DADD THEN ADD ELSE opcode - 4,
                                 d.m.sr, g.src, d.dst, bw)
                 m1 == [d.m EXCEPT !.sr = a.sr]
             IN  IF a.no_write THEN m1 ELSE write_back(d.wt, a.dst, bw, m1)

\* _execute_double_operand that does nothing on an opcode below 4
execute_double_operand_skips_invalid(m, instruction) ==
    LET opcode == double_opcode(instruction)
        bw == double_bw(instruction)
        g == get_src(m, double_src_reg(instruction), double_as(instruction), bw)
        d == get_dst(g.m, double_dst_reg(instruction), double_ad(instruction), bw)
    IN  IF d.m.panic # NoPanic THEN d.m
        ELSE IF opcode < 4 THEN d.m
        ELSE IF opcode - 4 = DADD THEN Panic(d.m, "dadd")
        ELSE LET a == double_arm(opcode - 4, d.m.sr, g.src, d.dst, bw)
                 m1 == [d.m EXCEPT !.sr = a.sr]
             IN  IF a.no_write THEN m1 ELSE write_back(d.wt, a.dst, bw, m1)

\* Computer::_execute_double_operand
execute_double_operand(m, instruction) ==
    LET opcode == double_opcode(instruction)
        bw == double_bw(instruction)
        g == get_src(m, double_src_reg(instruction), double_as(instruction), bw)
        d == get_dst(g.m, double_dst_reg(instruction), double_ad(instruction), bw)
    IN  IF d.m.panic # NoPanic THEN d.m
        ELSE IF opcode < 4 THEN Panic(d.m, "invalid_opcode")
        ELSE IF opcode - 4 = DADD THEN Panic(d.m, "dadd")
        ELSE LET a == double_arm(opcode - 4, d.m.sr, g.src, d.dst, bw)
                 m1 == [d.m EXCEPT !.sr = a.sr]
             IN  IF a.no_write THEN m1 ELSE write_back(d.wt, a.dst, bw, m1)

(***************************************************************************)
(* Computer::_execute and Computer::step.                                  *)
(***************************************************************************)
\* Computer::_execute
execute(m, instruction) ==
    IF Shr(instruction, 10) = 4 THEN execute_single_operand(m, instruction)
    ELSE IF Shr(instruction, 13) = 1 THEN execute_jump(m, instruction)
    ELSE IF instruction # 0 THEN execute_double_operand(m, instruction)
    ELSE m

\* step that does not look at CPUOFF
step_while_off(m) ==
    LET pc_w == m.pc
        instruction == MemoryMap_get_word(m.memory, pc_w)
    IN  IF AddPanics(m, pc_w, 2) THEN Panic(m, "overflow")
        ELSE execute([m EXCEPT !.pc = EvenRegister_set_word(AddWraps(pc_w, 2))],
                     instruction)

\* Computer::step
step(m) ==
    IF get_status(m.sr, CPUOFF) THEN m
    ELSE LET pc_w == m.pc
             instruction == MemoryMap_get_word(m.memory, pc_w)
         IN  IF AddPanics(m, pc_w, 2) THEN Panic(m, "overflow")
             ELSE execute([m EXCEPT !.pc = EvenRegister_set_word(AddWraps(pc_w, 2))],
                          instruction)

(***************************************************************************)
(* utils.rs: convert_code_fmt, U8Stream, load_code_fmt_new, load_code.     *)
(* An image is a sequence of bytes; index counts the bytes already popped. *)
(***************************************************************************)
\* convert_code_fmt, for byte_data of at least 2 bytes
convert_code_fmt(byte_data) ==
    LET code_size == BitAnd(Len(byte_data) - 2, 65535)
    IN  <<255, 255, 0, 2, byte_data[1], byte_data[2],
          Shr(BitAnd(code_size, 65280), 8), BitAnd(code_size, 255)>>
            \o SubSeq(byte_data, 3, Len(byte_data))
            \o <<255, 254, 0, 2, byte_data[1], byte_data[2]>>

\* U8Stream::pop_word panics: one of its two pop_byte indexes past the end
pop_word_panics(data, index) == index + 2 > Len(data)

\* U8Stream::pop_word
pop_word(data, index) == Shl16(data[index + 1], 8) + data[index + 2]

RECURSIVE load_segment(_, _, _, _, _, _)
\* the loop over the bytes of one segment: [m, index]
load_segment(m, data, index, start_addr, offset, segment_length) ==
    IF offset = segment_length THEN [m |-> m, index |-> index]
    ELSE IF AddPanics(m, start_addr, offset)
    THEN [m |-> Panic(m, "overflow"), index |-> index]
    ELSE IF index + 1 > Len(data)
    THEN [m |-> Panic(m, "index"), index |-> index]
    ELSE load_segment(
             [m EXCEPT !.memory = MemoryMap_set_byte(@, AddWraps(start_addr, offset),
                                                     data[index + 1])],
             data, index + 1, start_addr, offset + 1, segment_length)

RECURSIVE load_segments(_, _, _, _)
\* the loop over the segments: the machine after the last one, or the panic
load_segments(m, data, index, count) ==
    IF count = 0 THEN m
    ELSE IF pop_word_panics(data, index) \/ pop_word_panics(data, index + 2)
    THEN Panic(m, "index")
    ELSE LET r == load_segment(m, data, index + 4, pop_word(data, index), 0,
                               pop_word(data, index + 2))
         IN  IF r.m.panic # NoPanic THEN r.m
             ELSE load_segments(r.m, data, r.index, count - 1)

\* load_code_fmt_new that reads PC from 0xfffe before the segments are written
load_code_fmt_new_pc_first(m, byte_data) ==
    IF pop_word_panics(byte_data, 0) THEN Panic(m, "index")
    ELSE IF pop_word(byte_data, 0) # 65535 THEN Panic(m, "invalid_marker")
    ELSE IF pop_word_panics(byte_data, 2) THEN Panic(m, "index")
    ELSE LET m1 == load_segments(m, byte_data, 4, pop_word(byte_data, 2))
         IN  IF m1.panic # NoPanic THEN m1
             ELSE [m1 EXCEPT !.pc = EvenRegister_set_word(
                                        MemoryMap_get_word(m.memory, 65534))]

\* load_code_fmt_new
load_code_fmt_new(m, byte_data) ==
    IF pop_word_panics(byte_data, 0) THEN Panic(m, "index")
    ELSE IF pop_word(byte_data, 0) # 65535 THEN Panic(m, "invalid_marker")
    ELSE IF pop_word_panics(byte_data, 2) THEN Panic(m, "index")
    ELSE LET m1 == load_segments(m, byte_data, 4, pop_word(byte_data, 2))
         IN  IF m1.panic # NoPanic THEN m1
             ELSE [m1 EXCEPT !.pc = EvenRegister_set_word(
                                        MemoryMap_get_word(m1.memory, 65534))]

\* load_code that resets the machine before it loads
load_code_after_reset(m, byte_data) ==
    IF Len(byte_data) < 2 THEN Panic(m, "index")
    ELSE IF byte_data[1] # 255 \/ byte_data[2] # 255
    THEN load_code_fmt_new(reset(m), convert_code_fmt(byte_data))
    ELSE load_code_fmt_new(reset(m), byte_data)

\* load_code
load_code(m, byte_data) ==
    IF Len(byte_data) < 2 THEN Panic(m, "index")
    ELSE IF byte_data[1] # 255 \/ byte_data[2] # 255
    THEN load_code_fmt_new(m, convert_code_fmt(byte_data))
    ELSE load_code_fmt_new(m, byte_data)

(***************************************************************************)
(* The state machine.  One action per operation a caller of the engine has *)
(* (tests, run loop): step, interrupt, reset, load_code, memory.set_word.  *)
(***************************************************************************)
\* the Computer (and the process) as it is now
Cur ==
    [pc |-> pc, sp |-> sp, sr |-> sr, numbered_registers |-> numbered_registers,
     memory |-> memory, overflow_checks |-> overflow_checks, panic |-> panic]

\* the operation op(arg, val) has taken the machine to m
Commit(m, op, arg, val) ==
    /\ pc' = m.pc
    /\ sp' = m.sp
    /\ sr' = m.sr
    /\ numbered_registers' = m.numbered_registers
    /\ memory' = m.memory
    /\ panic' = m.panic
    /\ hist' = Append(hist, [op |-> op, arg |-> arg, val |-> val, before |-> Cur])
    /\ UNCHANGED <<overflow_checks, env, loop_vars>>

\* a panicked process does nothing more; the budget bounds the run
Alive == panic = NoPanic /\ Len(hist) < env.budget

\* c.step()
Step == Alive /\ Commit(step(Cur), "step", 0, 0)

\* c.interrupt(vector)
Interrupt == Alive /\ \E v \in env.vectors : Commit(interrupt(Cur, v), "interrupt", v, 0)

\* c.reset()
Reset == Alive /\ Commit(reset(Cur), "reset", 0, 0)

\* utils::load_code(c, image)
LoadCode == Alive /\ \E i \in env.images : Commit(load_code(Cur, i), "load_code", i, 0)

\* c.memory.set_word(addr, val)
SetMem ==
    Alive /\ \E w \in env.writes :
        Commit([Cur EXCEPT !.memory = MemoryMap_set_word(@, w[1], w[2])],
               "set_word", w[1], w[2])

Next == Step \/ Interrupt \/ Reset \/ LoadCode \/ SetMem

(***************************************************************************)
(* Initial states.  Every initial machine is one the program can be in:    *)
(* PC and SP even, the other registers and the memory cells arbitrary      *)
(* (MOV #x, Rn and set_word reach them from Computer::new).                *)
(***************************************************************************)
RECURSIVE WriteWords(_, _, _)
\* the words ws stored from address a on, as MemoryMap::set_word stores them
WriteWords(mem, a, ws) ==
    IF ws = << >> THEN mem
    ELSE WriteWords(MemoryMap_set_word(mem, a, Head(ws)), (a + 2) % U16, Tail(ws))

\* a machine: Computer::new, then the registers and the memory set
Machine(checks, pcv, spv, srv, r4, r5, mem) ==
    [Computer_new(checks) EXCEPT
        !.pc = EvenRegister_set_word(pcv),
        !.sp = EvenRegister_set_word(spv),
        !.sr = srv,
        !.numbered_registers = [i \in 0..11 |-> IF i = 0 THEN r4 ELSE IF i = 1 THEN r5 ELSE 0],
        !.memory = mem]

\* the run starts in one of the machines of S, with the caller's repertoire e
InitFrom(S, e) ==
    \E s \in S :
        /\ pc = s.pc
        /\ sp = s.sp
        /\ sr = s.sr
        /\ numbered_registers = s.numbered_registers
        /\ memory = s.memory
        /\ overflow_checks = s.overflow_checks
        /\ panic = NoPanic
        /\ hist = << >>
        /\ env = e
        /\ running = FALSE
        /\ run_mode = [kind |-> "Stopped", count |-> 0]
        /\ iters = 0
        /\ handle_commands = FALSE
        /\ shmem = << >>
        /\ at = "off"
        /\ trace = << >>

\* the bound on the number of operations of a run of Spec
MaxOps == 2

\* where the programs of the initial machines start (0x4400, as in the tests)
CodeBase == 17408

\* one instruction each: MOV.B #-1,PC; MOV.B R4,SP; MOV R4,SP; MOV R4,PC;
\* MOV.B @SP+,R5; CALL R4; RETI (operand R3); RETI (operand PC); ADD R4,R5;
\* PUSH R4; JMP +1; no-op; DADD R4,R5; MOV.B @PC+,R5
Programs ==
    { <<17264>>, <<17473>>, <<17409>>, <<17408>>, <<16757>>, <<4740>>, <<4867>>,
      <<4864>>, <<21509>>, <<4612>>, <<15361>>, <<0>>, <<41989>>, <<16501, 4660>> }

\* the interrupt vector 0xFFA0 points at an odd address; a RETI (operand R3) is at 0x5000
BaseMemory == WriteWords(WriteWords(<< >>, 65440, <<20481>>), 20480, <<4867>>)

\* SP at the bottom, near the bottom, in the middle and at the top of memory;
\* SR empty, GIE, GIE + CPUOFF, and C Z N GIE V together; R4 odd (0x44FF)
Machines ==
    { Machine(c, CodeBase, s, f, 17663, 0, WriteWords(BaseMemory, CodeBase, p)) :
        c \in BOOLEAN, s \in {0, 2, 4, 17408, 65534}, f \in {0, 8, 24, 271},
        p \in Programs }

\* a legacy image with an odd start address, a tagged image whose vector is odd
Images ==
    { <<68, 1, 67, 21>>,
      <<255, 255, 0, 1, 255, 254, 0, 2, 80, 1>> }

\* the vector of the tests, and a vector inside the stack of SP = 0x4400
Env ==
    [vectors |-> {65440, 17406}, images |-> Images,
     writes |-> {<<65535, 4660>>}, budget |-> MaxOps]

Init == InitFrom(Machines, Env)

Spec == Init /\ [][Next]_vars

(***************************************************************************)
(* Reading the history.                                                    *)
(***************************************************************************)
\* the machine after the i-th operation
After(i) == IF i = Len(hist) THEN Cur ELSE hist[i + 1].before

\* the i-th operation was op
Did(i, op) == i \in 1..Len(hist) /\ hist[i].op = op

\* the word the i-th operation, a step, fetched
Fetched(i) == MemoryMap_get_word(hist[i].before.memory, hist[i].before.pc)

\* bit k of x
Bit(x, k) == (x \div (2 ^ k)) % 2

\* the registers and the memory of two machines are the same
SameMachine(a, b) ==
    /\ a.pc = b.pc
    /\ a.sp = b.sp
    /\ a.sr = b.sr
    /\ a.numbered_registers = b.numbered_registers
    /\ a.memory = b.memory

\* the byte at address x of a memory
ByteAt(mem, x) == IF x \in DOMAIN mem THEN mem[x] ELSE 0

\* the big-endian word at address x of a memory
WordAt(mem, x) == ByteAt(mem, x) * 256 + ByteAt(mem, (x + 1) % 65536)

(***************************************************************************)
(* Interrupt entry.                                                        *)
(***************************************************************************)
\* C2: when interrupt(v) is called with GIE set and SP >= 4, afterwards
\* SP = old SP - 4, the memory word at old SP - 2 is the old PC, the memory
\* word at old SP - 4 is the old SR, SR = 0, and PC is the memory word at
\* address v, read after the pushes, with bit 0 cleared.
C2_InterruptEntry ==
    \A i \in 1..Len(hist) :
        (hist[i].op = "interrupt" /\ Bit(hist[i].before.sr, 3) = 1
            /\ hist[i].before.sp >= 4)
        => LET b == hist[i].before
               a == After(i)
               handler == WordAt(a.memory, hist[i].arg)
           IN  /\ a.sp = b.sp - 4
               /\ WordAt(a.memory, b.sp - 2) = b.pc
               /\ WordAt(a.memory, b.sp - 4) = b.sr
               /\ a.sr = 0
               /\ a.pc = handler - (handler % 2)

\* an accepted interrupt whose vector lies in the frame it pushes: the
\* handler address is the PC just pushed, not the word the vector held before
C2_Witness ==
    /\ Did(Len(hist), "interrupt")
    /\ Bit(hist[Len(hist)].before.sr, 3) = 1
    /\ hist[Len(hist)].before.sp >= 4
    /\ hist[Len(hist)].arg = hist[Len(hist)].before.sp - 2
    /\ WordAt(hist[Len(hist)].before.memory, hist[Len(hist)].arg) # hist[Len(hist)].before.pc
    /\ pc = hist[Len(hist)].before.pc

\* C3: when interrupt(v) is called with GIE clear, no register and no memory
\* cell changes.
C3_MaskedInterruptIsNoOp ==
    \A i \in 1..Len(hist) :
        (hist[i].op = "interrupt" /\ Bit(hist[i].before.sr, 3) = 0)
        => /\ SameMachine(After(i), hist[i].before)
           /\ After(i).panic = NoPanic

\* an interrupt refused with other SR bits set, SP in the middle of memory and
\* a vector that does not hold the PC
C3_Witness ==
    /\ Did(Len(hist), "interrupt")
    /\ Bit(hist[Len(hist)].before.sr, 3) = 0
    /\ hist[Len(hist)].before.sp = 17408
    /\ WordAt(memory, hist[Len(hist)].arg) \notin {pc, pc + 1}

(***************************************************************************)
(* Alignment of PC and SP.                                                 *)
(***************************************************************************)
\* C4: in every state reachable by any sequence of step, interrupt, reset,
\* program load and SetMem, bit 0 of PC and bit 0 of SP are 0.
C4_PcSpEven == pc % 2 = 0 /\ sp % 2 = 0

\* MOV.B R4,SP has just written the byte 0xFF to SP
C4_Witness ==
    /\ Did(Len(hist), "step")
    /\ Fetched(Len(hist)) = 17473
    /\ hist[Len(hist)].before.numbered_registers[0] % 256 = 255
    /\ Bit(hist[Len(hist)].before.sr, 4) = 0
    /\ sp = 254

(***************************************************************************)
(* CPUOFF.                                                                 *)
(***************************************************************************)
\* C5: when CPUOFF is set, step() changes no register and no memory cell, so
\* any number of consecutive step() calls leaves a halted machine as it was.
C5_HaltedStepIsNoOp ==
    \A i \in 1..Len(hist) : \A j \in i..Len(hist) :
        ((\A k \in i..j : hist[k].op = "step") /\ Bit(hist[i].before.sr, 4) = 1)
        => /\ SameMachine(After(j), hist[i].before)
           /\ After(j).panic = NoPanic

\* two steps in a row of a halted machine whose PC is at ADD R4,R5
C5_Witness ==
    /\ Len(hist) >= 2
    /\ Did(Len(hist) - 1, "step")
    /\ Did(Len(hist), "step")
    /\ Bit(hist[Len(hist) - 1].before.sr, 4) = 1
    /\ Fetched(Len(hist)) = 21509

(***************************************************************************)
(* Memory words.  SpecMem: a few machines whose memory is filled around    *)
(* the wrap from 0xFFFF to 0, and a caller that writes to the ends and to  *)
(* the middle of memory.                                                   *)
(***************************************************************************)
\* the bound on the number of operations of a run of SpecMem
MaxMemOps == 2

MemWrites ==
    { <<a, v>> : a \in {0, 17409, 65535}, v \in {0, 255, 4660, 65280, 65535} }

MemMachines ==
    { Machine(c, CodeBase, 17408, f, 17663, 0,
              WriteWords(WriteWords(BaseMemory, 65534, <<43981, 61185>>),
                         CodeBase, <<21509, 4660>>)) :
        c \in BOOLEAN, f \in {0, 8} }

EnvMem ==
    [vectors |-> {65440}, images |-> {<<68, 1, 67, 21>>},
     writes |-> MemWrites, budget |-> MaxMemOps]

InitMem == InitFrom(MemMachines, EnvMem)

SpecMem == InitMem /\ [][Next]_vars

\* C7: for every address a and every 16-bit v, set_word(a, v) followed by
\* get_word(a) returns v; the high byte of v is stored at a and the low byte
\* at (a + 1) mod 65536, and no other cell changes.
C7_WordRoundTrip ==
    \A i \in 1..Len(hist) :
        hist[i].op = "set_word"
        => LET a == hist[i].arg
               v == hist[i].val
               old == hist[i].before.memory
               new == After(i).memory
           IN  /\ MemoryMap_get_word(new, a) = v
               /\ ByteAt(new, a) = v \div 256
               /\ ByteAt(new, (a + 1) % 65536) = v % 256
               /\ \A x \in (DOMAIN old \cup DOMAIN new) \ {a, (a + 1) % 65536} :
                      ByteAt(new, x) = ByteAt(old, x)
               /\ DOMAIN new \subseteq 0..65535

\* a word written at 0xFFFF over other bytes: its low byte is now in cell 0,
\* and cell 1 still holds what it held
C7_Witness ==
    /\ Did(Len(hist), "set_word")
    /\ hist[Len(hist)].arg = 65535
    /\ hist[Len(hist)].val % 256 # 0
    /\ ByteAt(hist[Len(hist)].before.memory, 0) \notin {0, hist[Len(hist)].val % 256}
    /\ ByteAt(memory, 0) = hist[Len(hist)].val % 256
    /\ ByteAt(memory, 1) # 0

(***************************************************************************)
(* Interrupt and RETI.  SpecIrq: the vector 0xFFA0 points at a handler     *)
(* whose first word is a RETI, with the operand field R0 (0x1300, the      *)
(* encoding of the MSP430 instruction set), R3 (0x1303), SR (0x1302) or    *)
(* @SP+ (0x1331); the stack pointer is at the bottom, in the middle or at  *)
(* the top of memory.                                                      *)
(***************************************************************************)
\* the bound on the number of operations of a run of SpecIrq
MaxIrqOps == 2

\* the handler of the vector 0xFFA0
HandlerBase == CodeBase + 3072

IrqMachines ==
    { Machine(c, CodeBase, s, f, 17663, 0,
              WriteWords(WriteWords(WriteWords(<< >>, 65440, <<HandlerBase>>),
                                    HandlerBase, <<r>>),
                         CodeBase, <<21509>>)) :
        c \in BOOLEAN, s \in {0, 2, 4, 17408, 65534}, f \in {0, 8, 271},
        r \in {4864, 4867, 4866, 4913} }

EnvIrq ==
    [vectors |-> {65440}, images |-> {<<68, 1, 67, 21>>},
     writes |-> {<<65535, 4660>>}, budget |-> MaxIrqOps]

InitIrq == InitFrom(IrqMachines, EnvIrq)

SpecIrq == InitIrq /\ [][Next]_vars

\* a RETI, whatever its operand field and its B/W bit
IsReti(w) == w \div 128 = 38

\* C1: for every machine state with GIE set (any PC p, any SR s, any even SP
\* q), interrupt(v) followed by one step that fetches a RETI at the handler
\* address stored at v leaves PC = p, SR = s and SP = q.
C1_InterruptRetiRoundTrip ==
    \A i \in 1..(Len(hist) - 1) :
        (/\ hist[i].op = "interrupt"
         /\ Bit(hist[i].before.sr, 3) = 1
         /\ hist[i + 1].op = "step"
         /\ IsReti(Fetched(i + 1)))
        => /\ After(i + 1).panic = NoPanic
           /\ After(i + 1).pc = hist[i].before.pc
           /\ After(i + 1).sr = hist[i].before.sr
           /\ After(i + 1).sp = hist[i].before.sp

\* the RETI of the instruction set (0x1300) with the stack in the middle of
\* memory: the popped PC is lost
C1_Reti1300LosesPc ==
    /\ Len(hist) = 2
    /\ Did(1, "interrupt")
    /\ Did(2, "step")
    /\ hist[1].before.sr = 8
    /\ hist[1].before.sp = 17408
    /\ hist[1].before.pc = CodeBase
    /\ Fetched(2) = 4864
    /\ panic = NoPanic
    /\ pc = HandlerBase + 2
    /\ sr = 8
    /\ sp = 17408

\* the interrupt taken with SP = 0: the frame is pushed at odd addresses and
\* RETI (operand R3) pops other words
C1_StackAtZeroLosesFrame ==
    /\ Len(hist) = 2
    /\ Did(1, "interrupt")
    /\ Did(2, "step")
    /\ hist[1].before.sr = 8
    /\ hist[1].before.sp = 0
    /\ Fetched(2) = 4867
    /\ panic = NoPanic
    /\ <<pc, sr, sp>> # <<hist[1].before.pc, 8, 0>>

(***************************************************************************)
(* CALL and ret.  SpecCall: a CALL at 0x4400 with the operand R4, #0x4500, *)
(* @SP+, 0x100(R4) or SP; R4 even or odd; at 0x4500 a ret (MOV @SP+,PC),   *)
(* alone or after a MOV R4,R5 or a PUSH R4; the stack at the bottom or in  *)
(* the middle of memory; a caller that can overwrite the stack word.       *)
(***************************************************************************)
\* the bound on the number of operations of a run of SpecCall
MaxCallOps == 3

\* the subroutine
SubBase == CodeBase + 256

CallMemory(p, q) ==
    WriteWords(WriteWords(WriteWords(WriteWords(WriteWords(BaseMemory,
        0, <<SubBase>>), 17152, <<SubBase>>), 17920, <<SubBase + 1>>),
        SubBase, q), CodeBase, p)

CallMachines ==
    { Machine(c, CodeBase, s, 8, r, 0, CallMemory(p, q)) :
        c \in BOOLEAN, s \in {0, 17152}, r \in {SubBase, SubBase + 1},
        p \in {<<4740>>, <<4784, SubBase>>, <<4785>>, <<4756, 256>>, <<4737>>},
        q \in {<<16688>>, <<17413, 16688>>, <<4612, 16688>>} }

EnvCall ==
    [vectors |-> {65440}, images |-> {<<68, 1, 67, 21>>},
     writes |-> {<<17150, 4660>>}, budget |-> MaxCallOps]

InitCall == InitFrom(CallMachines, EnvCall)

SpecCall == InitCall /\ [][Next]_vars

\* the i-th operation was a step that executed an instruction to its end
Executed(i) ==
    /\ Did(i, "step")
    /\ Bit(hist[i].before.sr, 4) = 0
    /\ After(i).panic = NoPanic

\* a word-mode CALL
IsCall(w) == w \div 64 = 74

\* the operand of a single-operand word has an extension word
HasExtension(w) ==
    \/ (w \div 16) % 4 = 1 /\ w % 16 # 3
    \/ (w \div 16) % 4 = 3 /\ w % 16 = 0

\* the operand of a single-operand word is @SP+
IsPop(w) == (w \div 16) % 4 = 3 /\ w % 16 = 1

\* the address of the instruction after the one the i-th operation fetched
ReturnAddress(i) ==
    (hist[i].before.pc + 2 + (IF HasExtension(Fetched(i)) THEN 2 ELSE 0)) % 65536

\* the value of the operand of the word the i-th operation fetched
CallOperand(i) ==
    get_src([hist[i].before EXCEPT !.pc = (@ + 2) % 65536],
            Fetched(i) % 16, (Fetched(i) \div 16) % 4, FALSE).src

\* the j-th operation is a ret executed with SP as the CALL of the i-th
\* operation left it, and the stack word as that CALL left it
RetAfter(i, j) ==
    /\ i < j
    /\ Executed(j)
    /\ Fetched(j) = 16688
    /\ hist[j].before.sp = After(i).sp
    /\ WordAt(hist[j].before.memory, After(i).sp) = WordAt(After(i).memory, After(i).sp)

\* C6 as stated: a word-mode CALL stores at the new SP (old SP - 2) the
\* address of the instruction following the CALL and sets PC to the operand
\* value; a later ret executed with that SP and that stack word sets PC to
\* the address after the CALL and SP to its pre-CALL value.
C6_CallReturnAsStated ==
    \A i \in 1..Len(hist) :
        (Executed(i) /\ IsCall(Fetched(i)))
        => /\ After(i).sp = (hist[i].before.sp - 2) % 65536
           /\ WordAt(After(i).memory, After(i).sp) = ReturnAddress(i)
           /\ After(i).pc = CallOperand(i)
           /\ \A j \in 1..Len(hist) :
                  RetAfter(i, j)
                  => /\ After(j).pc = ReturnAddress(i)
                     /\ After(j).sp = hist[i].before.sp

\* C6, amended: a word-mode CALL stores at the new SP the address of the
\* instruction following the CALL and sets PC to the operand value with bit 0
\* cleared; the new SP is old SP - 2 (modulo 2^16), or the old SP when the
\* operand is @SP+; a later ret executed with that SP and that stack word
\* sets PC to the address after the CALL and SP to the new SP + 2, which is
\* the pre-CALL SP unless the operand is @SP+.
C6_CallReturn ==
    \A i \in 1..Len(hist) :
        (Executed(i) /\ IsCall(Fetched(i)))
        => LET new_sp == IF IsPop(Fetched(i)) THEN hist[i].before.sp
                         ELSE (hist[i].before.sp - 2) % 65536
           IN  /\ After(i).sp = new_sp
               /\ WordAt(After(i).memory, new_sp) = ReturnAddress(i)
               /\ After(i).pc = CallOperand(i) - (CallOperand(i) % 2)
               /\ \A j \in 1..Len(hist) :
                      RetAfter(i, j)
                      => /\ After(j).pc = ReturnAddress(i)
                         /\ After(j).sp = (new_sp + 2) % 65536
                         /\ (~IsPop(Fetched(i)) => After(j).sp = hist[i].before.sp)

\* CALL 0x100(R4) with an odd operand value and SP = 0, another instruction, then ret:
\* back after the extension word, SP back at 0
C6_Witness ==
    /\ Len(hist) = 3
    /\ Executed(1)
    /\ IsCall(Fetched(1))
    /\ HasExtension(Fetched(1))
    /\ CallOperand(1) % 2 = 1
    /\ hist[1].before.sp = 0
    /\ Executed(2)
    /\ RetAfter(1, 3)
    /\ pc = CodeBase + 4
    /\ sp = 0

(***************************************************************************)
(* ADD, ADDC, SUBC, SUB, CMP, BIT.  SpecAlu: one instruction at 0x4400     *)
(* with the source R4, in word and in byte mode, with the carry clear or   *)
(* set, and the destination R5, PC, SP, SR, R3 or a memory word; CMP and   *)
(* BIT also with a source in memory.                                       *)
(***************************************************************************)
\* the bound on the number of operations of a run of SpecAlu
MaxAluOps == 1

\* a double-operand word
Encode(op, src, ad, bw, as_, dst) ==
    op * 4096 + src * 256 + ad * 128 + bw * 64 + as_ * 16 + dst

\* the memory operand of the programs
DataBase == CodeBase + 512

AluValues == {0, 1, 128, 255, 32767, 32768, 65535}

\* ADD, ADDC, SUBC, SUB, CMP and BIT
AluOpcodes == {5, 6, 7, 8, 9, 11}

\* destination R5
AluRegisterMachines ==
    { Machine(c, CodeBase, 17152, f, a, b,
              WriteWords(BaseMemory, CodeBase, <<Encode(op, 4, 0, bw, 0, 5)>>)) :
        c \in BOOLEAN, f \in {0, 1}, a \in AluValues, b \in AluValues,
        op \in AluOpcodes, bw \in {0, 1} }

\* destination PC, SP, SR or R3
AluSpecialMachines ==
    { Machine(c, CodeBase, 17152, f, a, 0,
              WriteWords(BaseMemory, CodeBase, <<Encode(op, 4, 0, bw, 0, k)>>)) :
        c \in BOOLEAN, f \in {0, 1}, a \in {1, 65535}, k \in 0..3,
        op \in AluOpcodes, bw \in {0, 1} }

\* destination 0x4600(R6) with R6 = 0, or 0x4601(R4) with R4 = 0xFFFF
AluMemoryMachines ==
    { Machine(c, CodeBase, 17152, f, a, 0,
              WriteWords(WriteWords(BaseMemory, DataBase, <<b>>), CodeBase,
                         IF a = 65535 /\ b = 33023
                         THEN <<Encode(op, 4, 1, bw, 0, 4), DataBase + 1>>
                         ELSE <<Encode(op, 4, 1, bw, 0, 6), DataBase>>)) :
        c \in BOOLEAN, f \in {0, 1}, a \in {1, 65535}, b \in {0, 33023, 65535},
        op \in AluOpcodes, bw \in {0, 1} }

\* CMP and BIT with the source 2(R4), @R4 or @R4+ and the destination R5 or
\* 0x4600(R6); R4 = 0x4600, R6 = 0
AluModeMachines ==
    { Machine(c, CodeBase, 17152, f, DataBase, b,
              WriteWords(WriteWords(BaseMemory, DataBase, <<b, 33023>>), CodeBase,
                         <<Encode(op, 4, ad, bw, as_, IF ad = 1 THEN 6 ELSE 5)>>
                         \o (IF as_ = 1 THEN <<2>> ELSE << >>)
                         \o (IF ad = 1 THEN <<DataBase>> ELSE << >>))) :
        c \in BOOLEAN, f \in {0, 1}, b \in {0, 33023}, op \in {9, 11},
        as_ \in 1..3, ad \in {0, 1}, bw \in {0, 1} }

EnvAlu ==
    [vectors |-> {65440}, images |-> {<<68, 1, 67, 21>>},
     writes |-> {<<65535, 4660>>}, budget |-> MaxAluOps]

InitAlu ==
    InitFrom(AluRegisterMachines \cup AluSpecialMachines \cup AluMemoryMachines
                 \cup AluModeMachines, EnvAlu)

SpecAlu == InitAlu /\ [][Next]_vars

\* the opcode field of a double-operand word
OpcodeField(w) == w \div 4096

\* a byte-mode double-operand word
ByteMode(w) == (w \div 64) % 2 = 1

\* the width of its mode
Width(w) == IF ByteMode(w) THEN 8 ELSE 16

\* the source and the destination the i-th operation, a step, read, and where
\* it writes its result
Operands(i) ==
    LET w == Fetched(i)
        g == get_src([hist[i].before EXCEPT !.pc = (@ + 2) % 65536],
                     (w \div 256) % 16, (w \div 16) % 4, ByteMode(w))
        t == get_dst(g.m, w % 16, (w \div 128) % 2, ByteMode(w))
    IN  [s |-> g.src, d |-> t.dst, wt |-> t.wt]

\* what the destination of the i-th operation holds after it
Destination(i) ==
    LET wt == Operands(i).wt
    IN  IF wt.kind = "REGISTER" THEN get_register_word(After(i), wt.register)
        ELSE IF ByteMode(Fetched(i)) THEN ByteAt(After(i).memory, wt.address)
        ELSE WordAt(After(i).memory, wt.address)

\* the destination is one of r4-r15 or a memory operand
GeneralDestination(i) ==
    Operands(i).wt.kind = "MEMORY" \/ Operands(i).wt.register >= 4

\* what C8 says of the ADD the i-th operation executed
AddHolds(i) ==
    LET w == Width(Fetched(i))
        o == Operands(i)
        r == (o.d + o.s) % (2 ^ w)
        a == After(i)
    IN  /\ Destination(i) = r
        /\ (Bit(a.sr, 1) = 1) <=> (r = 0)
        /\ (Bit(a.sr, 2) = 1) <=> (Bit(r, w - 1) = 1)
        /\ (Bit(a.sr, 0) = 1) <=> (o.d + o.s > (2 ^ w) - 1)
        /\ (w = 16 /\ {o.d, o.s} = {65535, 1})
           => /\ Destination(i) = 0
              /\ Bit(a.sr, 0) = 1
              /\ Bit(a.sr, 1) = 1
              /\ Bit(a.sr, 2) = 0
              /\ Bit(a.sr, 8) = 0

\* C8 as stated: for every source s and destination d in the mode's range,
\* after ADD the destination holds (d + s) mod 2^w, ZERO is set iff that
\* result is 0, NEGATIVE iff its bit w-1 is set, CARRY iff d + s > 2^w - 1;
\* 0xFFFF + 1 in word mode gives 0 with CARRY, ZERO, no NEGATIVE, no OVERFLOW.
C8_AddAsStated ==
    \A i \in 1..Len(hist) :
        (Executed(i) /\ OpcodeField(Fetched(i)) = 5) => AddHolds(i)

\* C8, amended: the same, for an ADD whose destination is one of r4-r15 or a
\* memory operand.
C8_Add ==
    \A i \in 1..Len(hist) :
        (Executed(i) /\ OpcodeField(Fetched(i)) = 5 /\ GeneralDestination(i))
        => AddHolds(i)

\* ADD of 1 to 0xFFFF in word mode, into a register: 0, CARRY and ZERO
C8_Witness ==
    /\ Executed(Len(hist))
    /\ Fetched(Len(hist)) = 21509
    /\ Operands(Len(hist)).s = 1
    /\ Operands(Len(hist)).d = 65535
    /\ numbered_registers[1] = 0
    /\ sr % 8 = 3

\* what C10 says of the SUB or SUBC the i-th operation executed
SubHolds(i) ==
    LET o == Operands(i)
        c == Bit(hist[i].before.sr, 0)
    IN  /\ OpcodeField(Fetched(i)) = 8 => Destination(i) = (o.d - o.s) % 65536
        /\ OpcodeField(Fetched(i)) = 7 => Destination(i) = (o.d - o.s - 1 + c) % 65536

\* C10 as stated: for all 16-bit s and d, word-mode SUB leaves the destination
\* equal to (d - s) mod 2^16 and word-mode SUBC leaves it equal to
\* (d - s - 1 + C) mod 2^16, C the CARRY flag before the instruction.
C10_SubAsStated ==
    \A i \in 1..Len(hist) :
        (Executed(i) /\ OpcodeField(Fetched(i)) \in {7, 8} /\ ~ByteMode(Fetched(i)))
        => SubHolds(i)

\* C10, amended: the same, for a destination other than PC, SP and R3.
C10_Sub ==
    \A i \in 1..Len(hist) :
        (/\ Executed(i)
         /\ OpcodeField(Fetched(i)) \in {7, 8}
         /\ ~ByteMode(Fetched(i))
         /\ ~(Operands(i).wt.kind = "REGISTER" /\ Operands(i).wt.register \in {0, 1, 3}))
        => SubHolds(i)

\* SUBC R4,R5 with the carry clear, R5 = 0 and R4 = 0xFFFF: 0 - 0xFFFF - 1 wraps to 0
C10_Witness ==
    /\ Executed(Len(hist))
    /\ Fetched(Len(hist)) = Encode(7, 4, 0, 0, 0, 5)
    /\ Bit(hist[Len(hist)].before.sr, 0) = 0
    /\ Operands(Len(hist)).s = 65535
    /\ Operands(Len(hist)).d = 0
    /\ numbered_registers[1] = 0

(***************************************************************************)
(* The carry chain.  SpecChain: ADD R4,R5 (or ADD R4,SR, or ADD into a     *)
(* memory word), then perhaps a MOV, then ADDC #0 into R7, SP or R3, all   *)
(* holding 0, or ADDC R8,R9 on the high words of a 32-bit sum.             *)
(***************************************************************************)
\* the bound on the number of operations of a run of SpecChain
MaxChainOps == 3

ChainValues == {0, 1, 32768, 65535}

\* ADDC #0 into R7, SP, R3
AddcZero(dst) == Encode(6, 3, 0, 0, 0, dst)

ChainPrograms ==
    { <<21509, AddcZero(7)>>,
      <<21509, Encode(4, 5, 0, 0, 0, 6), AddcZero(7)>>,
      <<21509, Encode(4, 4, 0, 0, 0, 2), AddcZero(7)>>,
      <<21509, AddcZero(1)>>,
      <<21509, AddcZero(3)>>,
      <<Encode(5, 4, 0, 0, 0, 2), AddcZero(7)>>,
      <<Encode(5, 4, 1, 0, 0, 6), DataBase, AddcZero(7)>> }

\* ADD R4,R5 then ADDC R8,R9: R8:R4 added to R9:R5
LongAdd == <<21509, Encode(6, 8, 0, 0, 0, 9)>>

\* R8 and R9, the high words
HighWords == {<<65535, 0>>, <<1, 65535>>}

ChainMachine(c, a, b, h, p) ==
    [Machine(c, CodeBase, 0, 0, a, b,
             WriteWords(WriteWords(BaseMemory, DataBase, <<b>>), CodeBase, p))
        EXCEPT !.numbered_registers[4] = h[1], !.numbered_registers[5] = h[2]]

ChainMachines ==
    { ChainMachine(c, a, b, <<0, 0>>, p) :
        c \in BOOLEAN, a \in ChainValues, b \in ChainValues, p \in ChainPrograms }
    \cup
    { ChainMachine(c, a, b, h, LongAdd) :
        c \in BOOLEAN, a \in ChainValues, b \in ChainValues, h \in HighWords }

EnvChain ==
    [vectors |-> {65440}, images |-> {<<68, 1, 67, 21>>},
     writes |-> {<<65535, 4660>>}, budget |-> MaxChainOps]

InitChain == InitFrom(ChainMachines, EnvChain)

SpecChain == InitChain /\ [][Next]_vars

\* the j-th operation executed a word-mode ADDC, the i-th a word-mode ADD, and
\* every operation in between was an instruction that left the flags alone
Chained(i, j) ==
    /\ i < j
    /\ Executed(i)
    /\ OpcodeField(Fetched(i)) = 5
    /\ ~ByteMode(Fetched(i))
    /\ Executed(j)
    /\ OpcodeField(Fetched(j)) = 6
    /\ ~ByteMode(Fetched(j))
    /\ \A k \in (i + 1)..(j - 1) : Executed(k) /\ After(k).sr = hist[k].before.sr

\* the ADDC of the j-th operation is an ADDC #0 into a register holding 0
IntoZero(j) ==
    /\ (Fetched(j) \div 16) % 256 = 48
    /\ Operands(j).wt.kind = "REGISTER"
    /\ Operands(j).d = 0

\* the carry out of the ADD of the i-th operation
CarryOut(i) == (Operands(i).d + Operands(i).s) \div 65536

\* what C9 says of an ADD and the ADDC that follows it
ChainHolds(i, j) ==
    /\ IntoZero(j) => Destination(j) = (IF Operands(i).d + Operands(i).s > 65535 THEN 1 ELSE 0)
    /\ Destination(j) = (Operands(j).d + Operands(j).s + CarryOut(i)) % 65536

\* C9 as stated: after ADD a,b followed, with only flag-preserving
\* instructions in between, by ADDC #0 into a register holding 0, that register
\* holds 1 iff a + b > 0xFFFF and 0 otherwise; ADD on the low words then ADDC
\* on the high words yields the 32-bit sum modulo 2^32, whose high word is
\* the sum of the high words and of the carry of the low words, modulo 2^16.
C9_CarryChainAsStated ==
    \A i \in 1..Len(hist) : \A j \in 1..Len(hist) :
        Chained(i, j) => ChainHolds(i, j)

\* C9, amended: the same, for an ADD whose destination is not SR and an ADDC
\* whose destination is one of r4-r15 or a memory operand.
C9_CarryChain ==
    \A i \in 1..Len(hist) : \A j \in 1..Len(hist) :
        (/\ Chained(i, j)
         /\ ~(Operands(i).wt.kind = "REGISTER" /\ Operands(i).wt.register = 2)
         /\ GeneralDestination(j))
        => ChainHolds(i, j)

\* ADD R4,R5 with a carry out, MOV R5,R6, then ADDC #0,R7: R7 = 1
C9_Witness ==
    /\ Len(hist) = 3
    /\ Chained(1, 3)
    /\ Fetched(2) = Encode(4, 5, 0, 0, 0, 6)
    /\ IntoZero(3)
    /\ Operands(1).d + Operands(1).s > 65535
    /\ numbered_registers[3] = 1

(***************************************************************************)
(* Addressing modes.  SpecModes: one MOV, BIC or BIS at 0x4400, in word    *)
(* and in byte mode, with the source register PC, SP, SR, R3 or R4 in each *)
(* of the four source modes, and the destination R5, SR, an indexed word   *)
(* off R5 or an indexed word off SR; or one SWPB with the same operands.   *)
(* R4 is 0x4600 or 0xFFFF, R5 is 0xABCD, SR is empty or holds C, N and V.  *)
(***************************************************************************)
\* the bound on the number of operations of a run of SpecModes
MaxModeOps == 1

\* the two words after the instruction word
ModeWords == <<17921, 512>>

\* the words the operands of the programs address
ModesData ==
    WriteWords(WriteWords(WriteWords(WriteWords(WriteWords(WriteWords(WriteWords(
        BaseMemory, 17152, <<4386>>), DataBase, <<13124, 21862>>),
        65535, <<30600>>), 35841, <<39338>>), 35331, <<48076>>), 35073, <<56814>>),
        44493, <<3855>>)

ModesMemory(p) == WriteWords(ModesData, CodeBase, p)

ModePrograms ==
    { <<Encode(op, r, d[1], bw, as_, d[2])>> \o ModeWords :
        op \in {4, 12, 13}, r \in 0..4, as_ \in 0..3, bw \in {0, 1},
        d \in {<<0, 5>>, <<0, 2>>, <<1, 5>>, <<1, 2>>} }
    \cup
    { <<4224 + as_ * 16 + r>> \o ModeWords : r \in 0..4, as_ \in 0..3 }

\* mov #0xf00d &0xc0de
AbsoluteArgMode == <<16562, 61453, 49374>>

ModeMachines ==
    { Machine(c, CodeBase, 17152, f, a, 43981, ModesMemory(p)) :
        c \in BOOLEAN, f \in {0, 261}, a \in {DataBase, 65535}, p \in ModePrograms }
    \cup
    { Machine(c, CodeBase, 17152, NEGATIVE, DataBase, 43981,
              WriteWords(BaseMemory, CodeBase, AbsoluteArgMode)) : c \in BOOLEAN }

EnvModes ==
    [vectors |-> {65440}, images |-> {<<68, 1, 67, 21>>},
     writes |-> {<<65535, 4660>>}, budget |-> MaxModeOps]

InitModes == InitFrom(ModeMachines, EnvModes)

SpecModes == InitModes /\ [][Next]_vars

\* the result of a double-operand word is written to the register SR
WritesSr(w) == (w \div 128) % 2 = 0 /\ w % 16 = 2

\* C11: when the write target is not the status register, SR is bit for bit
\* the same before and after a MOV, BIC or BIS, for every source value,
\* destination value, addressing mode and byte or word mode.
C11_MovBicBisKeepFlags ==
    \A i \in 1..Len(hist) :
        (Executed(i) /\ OpcodeField(Fetched(i)) \in {4, 12, 13} /\ ~WritesSr(Fetched(i)))
        => After(i).sr = hist[i].before.sr

\* BIS.B with an indexed destination has set bits in a memory byte with C, N
\* and V set in SR, and SR is as it was
C11_Witness ==
    /\ Executed(Len(hist))
    /\ OpcodeField(Fetched(Len(hist))) = 13
    /\ ByteMode(Fetched(Len(hist)))
    /\ (Fetched(Len(hist)) \div 128) % 2 = 1
    /\ memory # hist[Len(hist)].before.memory
    /\ sr = 261

(***************************************************************************)
(* Jumps.  SpecJump: one jump word, with each condition, the offset fields *)
(* 1, 512, 513 and 1023, each combination of ZERO, CARRY, NEGATIVE and     *)
(* OVERFLOW, at the bottom, in the middle and at the top of memory.        *)
(***************************************************************************)
\* the bound on the number of operations of a run of SpecJump
MaxJumpOps == 1

\* a jump word
EncodeJump(condition, raw) == 8192 + condition * 1024 + raw

JumpMachines ==
    { Machine(c, a, 17152, z + cy + n + v, 17663, 0,
              WriteWords(BaseMemory, a, <<EncodeJump(k, raw)>>)) :
        c \in BOOLEAN, a \in {0, CodeBase, 65532}, z \in {0, 2}, cy \in {0, 1},
        n \in {0, 4}, v \in {0, 256}, k \in 0..7, raw \in {1, 512, 513, 1023} }

EnvJump ==
    [vectors |-> {65440}, images |-> {<<68, 1, 67, 21>>},
     writes |-> {<<65535, 4660>>}, budget |-> MaxJumpOps]

InitJump == InitFrom(JumpMachines, EnvJump)

SpecJump == InitJump /\ [][Next]_vars

\* a jump word
IsJump(w) == w \div 8192 = 1

\* the offset of a jump word: its low 10 bits, less 1024 when above 512
OffsetField(w) == IF w % 1024 > 512 THEN (w % 1024) - 1024 ELSE w % 1024

\* the condition of a jump word holds of the flags of srv
Taken(w, srv) ==
    LET k == (w \div 1024) % 8
    IN  \/ k = 0 /\ Bit(srv, 1) = 0
        \/ k = 1 /\ Bit(srv, 1) = 1
        \/ k = 2 /\ Bit(srv, 0) = 0
        \/ k = 3 /\ Bit(srv, 0) = 1
        \/ k = 4 /\ Bit(srv, 2) = 1
        \/ k = 5 /\ Bit(srv, 2) = Bit(srv, 8)
        \/ k = 6 /\ Bit(srv, 2) # Bit(srv, 8)
        \/ k = 7

\* C12: for each condition code 0..7 and each combination of ZERO, CARRY,
\* NEGATIVE, OVERFLOW the jump is taken exactly when: 0 ZERO clear, 1 ZERO set,
\* 2 CARRY clear, 3 CARRY set, 4 NEGATIVE set, 5 NEGATIVE = OVERFLOW,
\* 6 NEGATIVE # OVERFLOW, 7 always; when taken PC becomes (PC after fetch +
\* 2 * offset) mod 2^16, when not taken PC is only advanced past the jump
\* word; a jump never changes SR, SP, any other register or memory.  The
\* offset is the 10-bit field, read as negative when it is above 512.
C12_JumpConditions ==
    \A i \in 1..Len(hist) :
        (Executed(i) /\ IsJump(Fetched(i)))
        => LET b == hist[i].before
               a == After(i)
               next == (b.pc + 2) % 65536
           IN  /\ a.pc = IF Taken(Fetched(i), b.sr)
                         THEN (next + 2 * OffsetField(Fetched(i))) % 65536
                         ELSE next
               /\ a.sr = b.sr
               /\ a.sp = b.sp
               /\ a.numbered_registers = b.numbered_registers
               /\ a.memory = b.memory

\* JGE at address 0 with NEGATIVE and OVERFLOW set and the offset -511:
\* the jump is taken and PC wraps below 0
C12_Witness ==
    /\ Executed(Len(hist))
    /\ Fetched(Len(hist)) = EncodeJump(5, 513)
    /\ hist[Len(hist)].before.pc = 0
    /\ Bit(hist[Len(hist)].before.sr, 2) = 1
    /\ Bit(hist[Len(hist)].before.sr, 8) = 1
    /\ pc = 64516

(***************************************************************************)
(* Operand resolution, on SpecModes.                                       *)
(***************************************************************************)
\* a single-operand word
IsSingle(w) == w \div 1024 = 4

\* the register field of the source of a single- or double-operand word
SourceRegister(w) == IF IsSingle(w) THEN w % 16 ELSE (w \div 256) % 16

\* the As field of a word
SourceMode(w) == (w \div 16) % 4

\* the machine of the i-th operation once its instruction word is fetched
FetchedMachine(i) == [hist[i].before EXCEPT !.pc = (@ + 2) % 65536]

\* the resolution of the source of the i-th operation
Source(i) ==
    get_src(FetchedMachine(i), SourceRegister(Fetched(i)), SourceMode(Fetched(i)),
            ByteMode(Fetched(i)))

\* the source of a word is a generated constant
IsConstant(w) ==
    SourceRegister(w) = 3 \/ (SourceRegister(w) = 2 /\ SourceMode(w) \in {2, 3})

\* the constant the source of a word stands for
ConstantOf(w) ==
    IF SourceRegister(w) = 3
    THEN (CASE SourceMode(w) = 0 -> 0
            [] SourceMode(w) = 1 -> 1
            [] SourceMode(w) = 2 -> 2
            [] SourceMode(w) = 3 -> IF ByteMode(w) THEN 255 ELSE 65535)
    ELSE (IF SourceMode(w) = 2 THEN 4 ELSE 8)

\* a MOV into R5 in register mode
IsMovToR5(w) == OpcodeField(w) = 4 /\ (w \div 128) % 2 = 0 /\ w % 16 = 5

\* C13: resolving a source with register 3 yields 0, 1, 2 for As = 0, 1, 2
\* and 0xFF (byte mode) or 0xFFFF (word mode) for As = 3; with register 2 it
\* yields 4 for As = 2 and 8 for As = 3; in all these cases the write-target
\* is none, no memory is read (the value is the same over an empty memory),
\* PC is not advanced by the operand and no register is modified, whatever
\* the contents of SR; a MOV of such a source into R5 leaves the constant
\* in R5 and PC just past the instruction word.
C13_ConstantGenerator ==
    \A i \in 1..Len(hist) :
        (Did(i, "step") /\ Bit(hist[i].before.sr, 4) = 0 /\ IsConstant(Fetched(i)))
        => /\ Source(i).src = ConstantOf(Fetched(i))
           /\ Source(i).wt = VOID
           /\ Source(i).m = FetchedMachine(i)
           /\ get_src([FetchedMachine(i) EXCEPT !.memory = MemoryMap_new],
                      SourceRegister(Fetched(i)), SourceMode(Fetched(i)),
                      ByteMode(Fetched(i))).src = ConstantOf(Fetched(i))
           /\ IsMovToR5(Fetched(i))
              => After(i) = [FetchedMachine(i) EXCEPT
                                !.numbered_registers[1] = ConstantOf(Fetched(i))]

\* MOV.B #-1, R5 with C, N and V set: R5 holds 0x00FF
C13_Witness ==
    /\ Executed(Len(hist))
    /\ IsMovToR5(Fetched(Len(hist)))
    /\ SourceRegister(Fetched(Len(hist))) = 3
    /\ SourceMode(Fetched(Len(hist))) = 3
    /\ ByteMode(Fetched(Len(hist)))
    /\ hist[Len(hist)].before.sr = 261
    /\ numbered_registers[1] = 255
    /\ pc = CodeBase + 2

\* the offset word of the source of the i-th operation
SourceOffsetWord(i) == WordAt(FetchedMachine(i).memory, FetchedMachine(i).pc)

\* the address C14 gives the indexed source of the i-th operation
IndexedAddress(i) ==
    IF SourceRegister(Fetched(i)) = 2 THEN SourceOffsetWord(i)
    ELSE (SourceOffsetWord(i)
            + get_register_word(FetchedMachine(i), SourceRegister(Fetched(i)))) % 65536

\* the byte or the word at an address of the memory of the i-th operation
OperandAt(i, address) ==
    IF ByteMode(Fetched(i)) THEN ByteAt(hist[i].before.memory, address)
    ELSE WordAt(hist[i].before.memory, address)

\* a step of a running machine on a single- or double-operand word
Resolves(i) ==
    /\ Did(i, "step")
    /\ Bit(hist[i].before.sr, 4) = 0
    /\ (IsSingle(Fetched(i)) \/ OpcodeField(Fetched(i)) >= 4)

\* what C14 says of the source of the i-th operation
IndexedHolds(i) ==
    /\ Source(i).m = [FetchedMachine(i) EXCEPT !.pc = (@ + 2) % 65536]
    /\ Source(i).src = OperandAt(i, IndexedAddress(i))
    /\ Source(i).wt = MemoryWriteTarget_new(IndexedAddress(i))
    /\ IsMovToR5(Fetched(i))
       => After(i) = [FetchedMachine(i) EXCEPT
                         !.pc = (@ + 2) % 65536,
                         !.numbered_registers[1] = OperandAt(i, IndexedAddress(i))]

\* C14 as it is stated: with As = 1 the operand address is (offset word at
\* PC + register value) mod 2^16 for every register except the status
\* register, and exactly the offset word when the register is the status
\* register; PC is advanced by 2 past the offset word, and the value read at
\* that address is returned with that address as memory write-target.
C14_IndexedSourceAsStated ==
    \A i \in 1..Len(hist) :
        (Resolves(i) /\ SourceMode(Fetched(i)) = 1) => IndexedHolds(i)

\* C14, amended: with As = 1 and a register other than the constant generator
\* R3, the operand address is (offset word at PC + register value) mod 2^16
\* for every register except the status register, and exactly the offset
\* word when the register is the status register, whatever the flags in SR;
\* PC is advanced by 2 past the offset word, and the value read at that
\* address is returned with that address as memory write-target.
C14_IndexedSource ==
    \A i \in 1..Len(hist) :
        (Resolves(i) /\ SourceMode(Fetched(i)) = 1 /\ SourceRegister(Fetched(i)) # 3)
        => IndexedHolds(i)

\* MOV 0x4601(R4), R5 with R4 = 0xFFFF: the address wraps to 0x4600
C14_Witness ==
    /\ Executed(Len(hist))
    /\ IsMovToR5(Fetched(Len(hist))) /\ ~ByteMode(Fetched(Len(hist)))
    /\ SourceMode(Fetched(Len(hist))) = 1
    /\ SourceRegister(Fetched(Len(hist))) = 4
    /\ hist[Len(hist)].before.numbered_registers[0] = 65535
    /\ numbered_registers[1] = 13124
    /\ pc = CodeBase + 4

\* MOV &0x4601, R5 with C, N and V set: the address is the offset word
C14_AbsoluteWitness ==
    /\ Executed(Len(hist))
    /\ IsMovToR5(Fetched(Len(hist))) /\ ~ByteMode(Fetched(Len(hist)))
    /\ SourceMode(Fetched(Len(hist))) = 1
    /\ SourceRegister(Fetched(Len(hist))) = 2
    /\ hist[Len(hist)].before.sr = 261
    /\ numbered_registers[1] = WordAt(memory, 17921)
    /\ numbered_registers[1] # 0

\* the source of a double-operand word has a word after the instruction word
HasSourceWord(w) ==
    \/ SourceMode(w) = 1 /\ SourceRegister(w) # 3
    \/ SourceMode(w) = 3 /\ SourceRegister(w) = 0

\* the destination of a double-operand word is absolute
IsAbsoluteDestination(w) ==
    OpcodeField(w) >= 4 /\ (w \div 128) % 2 = 1 /\ w % 16 = 2

\* the destination offset word of the i-th operation
DestinationOffsetWord(i) ==
    WordAt(hist[i].before.memory,
           (hist[i].before.pc + 2 + (IF HasSourceWord(Fetched(i)) THEN 2 ELSE 0)) % 65536)

\* the addresses of the absolute destination of the i-th operation
AbsoluteCells(i) ==
    IF ByteMode(Fetched(i)) THEN {DestinationOffsetWord(i)}
    ELSE {DestinationOffsetWord(i), (DestinationOffsetWord(i) + 1) % 65536}

\* C15: a double-operand instruction whose destination is absolute (Ad=1
\* with destination register 2) writes its result to exactly the address
\* given by the destination offset word, whatever flags are set in the
\* status register: no other cell of memory changes, and after a MOV the
\* operand at that address is the source.
C15_AbsoluteDestination ==
    \A i \in 1..Len(hist) :
        (Executed(i) /\ IsAbsoluteDestination(Fetched(i)))
        => /\ \A x \in (DOMAIN After(i).memory \cup DOMAIN hist[i].before.memory)
                            \ AbsoluteCells(i) :
                  ByteAt(After(i).memory, x) = ByteAt(hist[i].before.memory, x)
           /\ OpcodeField(Fetched(i)) = 4
              => (IF ByteMode(Fetched(i))
                  THEN ByteAt(After(i).memory, DestinationOffsetWord(i))
                           = Source(i).src % 256
                  ELSE WordAt(After(i).memory, DestinationOffsetWord(i))
                           = Source(i).src)

\* NEGATIVE set, mov #0xf00d &0xc0de: 0xf00d is at 0xc0e2 and 0xc0de holds 0
C15_WrittenAtOffsetPlusSr ==
    /\ Executed(Len(hist))
    /\ Fetched(Len(hist)) = AbsoluteArgMode[1]
    /\ hist[Len(hist)].before.sr = NEGATIVE
    /\ DestinationOffsetWord(Len(hist)) = 49374
    /\ WordAt(memory, 49374) = 0
    /\ WordAt(memory, 49374 + NEGATIVE) = 61453

\* the source of a word is autoincrement on a register other than 2 and 3
IsAutoincrement(w) == SourceMode(w) = 3 /\ SourceRegister(w) \notin {2, 3}

\* the increment C16 gives the source register of a word
IncrementOf(w) ==
    IF ByteMode(w) /\ SourceRegister(w) >= 4 THEN 1 ELSE 2

\* a machine with the word v in register r
WithRegister(m, r, v) ==
    IF r = 0 THEN [m EXCEPT !.pc = v]
    ELSE IF r = 1 THEN [m EXCEPT !.sp = v]
    ELSE [m EXCEPT !.numbered_registers[r - 4] = v]

\* what C16 says of the source of the i-th operation, the register holding
\* old when the source is resolved
AutoincrementHolds(i, old) ==
    /\ Source(i).src = OperandAt(i, old)
    /\ Source(i).wt = MemoryWriteTarget_new(old)
    /\ Source(i).m = WithRegister(FetchedMachine(i), SourceRegister(Fetched(i)),
                                  (old + IncrementOf(Fetched(i))) % 65536)

\* C16 as it is stated: with As = 3 and a register other than 2 and 3 the
\* value is read from the address held in the register before the
\* instruction, the write-target is that address, and after the instruction
\* the register equals (old value + 2) mod 2^16 in word mode, (old value + 1)
\* mod 2^16 in byte mode for registers 4-15, and (old value + 2) mod 2^16 in
\* byte mode for PC and SP.
C16_AutoincrementAsStated ==
    \A i \in 1..Len(hist) :
        (Executed(i) /\ (IsSingle(Fetched(i)) \/ OpcodeField(Fetched(i)) >= 4)
            /\ IsAutoincrement(Fetched(i)))
        => LET old == get_register_word(hist[i].before, SourceRegister(Fetched(i)))
           IN  /\ Source(i).src = OperandAt(i, old)
               /\ Source(i).wt = MemoryWriteTarget_new(old)
               /\ get_register_word(After(i), SourceRegister(Fetched(i)))
                    = (old + IncrementOf(Fetched(i))) % 65536

\* C16, amended: with As = 3 and a register other than 2 and 3 the value is
\* read from the address held in the register when the source is resolved
\* (for PC the address of the word after the instruction word), the
\* write-target is that pre-increment address, and once the source is
\* resolved the register equals (old value + 2) mod 2^16 in word mode,
\* (old value + 1) mod 2^16 in byte mode for registers 4-15, and (old value
\* + 2) mod 2^16 in byte mode for PC and SP, nothing else being changed; a
\* MOV of such a source into R5 leaves the register at that value.
C16_Autoincrement ==
    \A i \in 1..Len(hist) :
        (Resolves(i) /\ IsAutoincrement(Fetched(i)))
        => /\ AutoincrementHolds(i,
                  get_register_word(FetchedMachine(i), SourceRegister(Fetched(i))))
           /\ IsMovToR5(Fetched(i))
              => After(i) = [Source(i).m EXCEPT !.numbered_registers[1] =
                                IF ByteMode(Fetched(i)) THEN Source(i).src % 256
                                ELSE Source(i).src]

\* MOV.B @R4+, R5 with R4 = 0xFFFF: R5 holds the byte at 0xFFFF, R4 wraps to 0
C16_Witness ==
    /\ Executed(Len(hist))
    /\ IsMovToR5(Fetched(Len(hist))) /\ ByteMode(Fetched(Len(hist)))
    /\ SourceMode(Fetched(Len(hist))) = 3
    /\ SourceRegister(Fetched(Len(hist))) = 4
    /\ hist[Len(hist)].before.numbered_registers[0] = 65535
    /\ numbered_registers[0] = 0
    /\ numbered_registers[1] = 119

\* MOV.B @SP+, R5: SP moves by 2
C16_StackWitness ==
    /\ Executed(Len(hist))
    /\ IsMovToR5(Fetched(Len(hist))) /\ ByteMode(Fetched(Len(hist)))
    /\ SourceMode(Fetched(Len(hist))) = 3
    /\ SourceRegister(Fetched(Len(hist))) = 1
    /\ sp = hist[Len(hist)].before.sp + 2
    /\ numbered_registers[1] = 17

\* a byte-mode double-operand word whose destination is one of r4-r15
IsByteToGeneralRegister(w) ==
    OpcodeField(w) >= 4 /\ ByteMode(w) /\ (w \div 128) % 2 = 0 /\ w % 16 >= 4

\* the byte a MOV.B, BIC.B or BIS.B writes, from the low byte of the
\* destination and the source
ByteResult(w, low, s) ==
    CASE OpcodeField(w) = 4 -> s % 256
      [] OpcodeField(w) = 12 -> BitAnd(low, 255 - (s % 256))
      [] OpcodeField(w) = 13 -> BitOr(low, s % 256)

\* the bytes set_byte is given directly
ByteSamples == {0, 165, 255}

\* C17: byte writes to a general-purpose register clear its high byte: after
\* any byte-mode write of b to a register 4-15 (set_byte directly, or the
\* write-back of a byte-mode instruction with a register destination) the
\* register's word equals b (0x00..0xFF), regardless of its previous contents.
C17_ByteWriteClearsHighByte ==
    /\ \A r \in 4..15, b \in ByteSamples :
           get_register_word(set_register_byte(Cur, r, b), r) = b
    /\ \A i \in 1..Len(hist) :
           (Executed(i) /\ IsByteToGeneralRegister(Fetched(i)))
           => LET w == Fetched(i)
                  old == hist[i].before.numbered_registers[(w % 16) - 4]
                  new == After(i).numbered_registers[(w % 16) - 4]
              IN  /\ new \in 0..255
                  /\ OpcodeField(w) \in {4, 12, 13}
                     => new = ByteResult(w, old % 256, Source(i).src)

\* MOV.B R4, R5 with R4 = 0xFFFF and R5 = 0xABCD: R5 holds 0x00FF
C17_Witness ==
    /\ Executed(Len(hist))
    /\ IsMovToR5(Fetched(Len(hist))) /\ ByteMode(Fetched(Len(hist)))
    /\ SourceMode(Fetched(Len(hist))) = 0
    /\ SourceRegister(Fetched(Len(hist))) = 4
    /\ hist[Len(hist)].before.numbered_registers[0] = 65535
    /\ hist[Len(hist)].before.numbered_registers[1] = 43981
    /\ numbered_registers[1] = 255

(***************************************************************************)
(* Fatal instruction words.  SpecFatal: one instruction word among the     *)
(* DADD words, the words of no format, the single-operand words of opcode  *)
(* 7 and a few valid words, followed by the two words of ModeWords.        *)
(***************************************************************************)
\* the bound on the number of operations of a run of SpecFatal
MaxFatalOps == 1

\* DADD with sources in R3, R4, R5 and destinations SR and R5
DaddWords ==
    { Encode(10, s, ad, bw, as_, d) :
        s \in {3, 4, 5}, ad \in {0, 1}, bw \in {0, 1}, as_ \in 0..3, d \in {2, 5} }

\* words of the double-operand shape with an opcode below 4
NoFormatWords == {1, 1333, 4095, 5120, 5429, 8191}

\* single-operand words with the opcode 7
Opcode7Words ==
    { 4096 + 7 * 128 + bw * 64 + as_ * 16 + r :
        bw \in {0, 1}, as_ \in 0..3, r \in {1, 3, 4, 5} }

\* the empty word, MOV R4,R5, AND R4,R5, SWPB R4 and JMP +1
ValidWords ==
    {0, Encode(4, 4, 0, 0, 0, 5), Encode(15, 4, 0, 0, 0, 5), 4224 + 4, EncodeJump(7, 1)}

FatalMachines ==
    { Machine(c, CodeBase, 17152, f, DataBase, b, ModesMemory(<<w>> \o ModeWords)) :
        c \in BOOLEAN, f \in {0, 261}, b \in {43981, 65535},
        w \in DaddWords \cup NoFormatWords \cup Opcode7Words \cup ValidWords }

EnvFatal ==
    [vectors |-> {65440}, images |-> {<<68, 1, 67, 21>>},
     writes |-> {<<65535, 4660>>}, budget |-> MaxFatalOps]

InitFatal == InitFrom(FatalMachines, EnvFatal)

SpecFatal == InitFatal /\ [][Next]_vars

\* a step of a running machine
Ran(i) == Did(i, "step") /\ Bit(hist[i].before.sr, 4) = 0

\* the i-th operation wrote no result and updated no flag: memory and SR are
\* as before it, SP and r4-r15 as the resolution of the source left them,
\* and PC is past the instruction word and the words of its operands
NothingWritten(i) ==
    /\ After(i).memory = hist[i].before.memory
    /\ After(i).sr = hist[i].before.sr
    /\ After(i).sp = Source(i).m.sp
    /\ After(i).numbered_registers = Source(i).m.numbered_registers
    /\ After(i).pc \in {Source(i).m.pc, (Source(i).m.pc + 2) % 65536}

\* C18: executing any instruction word whose top nibble is 0xA (decimal add)
\* terminates execution with a fatal condition and never writes a result to
\* the destination register or memory and never updates flags.
C18_DaddIsFatal ==
    \A i \in 1..Len(hist) :
        (Ran(i) /\ OpcodeField(Fetched(i)) = 10)
        => /\ After(i).panic # NoPanic
           /\ NothingWritten(i)
           /\ (Fetched(i) \div 128) % 2 = 0 /\ Fetched(i) % 16 = 5
                /\ ~(SourceRegister(Fetched(i)) = 5 /\ SourceMode(Fetched(i)) = 3)
              => After(i).numbered_registers[1] = hist[i].before.numbered_registers[1]

\* DADD.B @R4+, R5 with C, N and V set: the run is over, R5 and SR are as
\* they were
C18_Witness ==
    /\ Ran(Len(hist))
    /\ Fetched(Len(hist)) = Encode(10, 4, 0, 1, 3, 5)
    /\ panic # NoPanic
    /\ sr = 261
    /\ numbered_registers[1] = 43981
    /\ numbered_registers[0] = DataBase + 1

\* a word of the double-operand shape: not empty, not single-operand, not a jump
IsDoubleShape(w) == w # 0 /\ ~IsSingle(w) /\ ~IsJump(w)

\* a word C19 calls invalid
IsInvalidWord(w) ==
    \/ IsDoubleShape(w) /\ OpcodeField(w) < 4
    \/ IsSingle(w) /\ (w \div 128) % 8 = 7

\* C19: every nonzero word that is not single-operand (top 6 bits 000100)
\* and not a jump (top 3 bits 001) and whose top nibble is below 4
\* (0x0001-0x0FFF, 0x1400-0x1FFF), and every single-operand word whose 3-bit
\* opcode is 7, terminates execution instead of modifying any destination
\* (no result is written and no flag updated); only words with top nibble
\* 4..15 execute as MOV..AND: a word of the double-operand shape that
\* executes has such a nibble, and MOV R4,R5 and AND R4,R5 do as MOV and AND.
C19_InvalidWordsAreFatal ==
    \A i \in 1..Len(hist) :
        /\ (Ran(i) /\ IsInvalidWord(Fetched(i)))
           => (After(i).panic # NoPanic /\ NothingWritten(i))
        /\ (Executed(i) /\ IsDoubleShape(Fetched(i)))
           => /\ OpcodeField(Fetched(i)) \in 4..15
              /\ Fetched(i) = Encode(4, 4, 0, 0, 0, 5)
                 => After(i).numbered_registers[1] = hist[i].before.numbered_registers[0]
              /\ Fetched(i) = Encode(15, 4, 0, 0, 0, 5)
                 => After(i).numbered_registers[1]
                      = BitAnd(hist[i].before.numbered_registers[0],
                               hist[i].before.numbered_registers[1])

\* the word 0x1400 (opcode 1, R4 to PC): the run is over and PC is only
\* past the word
C19_Witness ==
    /\ Ran(Len(hist))
    /\ Fetched(Len(hist)) = 5120
    /\ panic # NoPanic
    /\ pc = CodeBase + 2
    /\ memory = hist[Len(hist)].before.memory

\* the single-operand word 0x13B4 (opcode 7, @R4+): the run is over
C19_Opcode7Witness ==
    /\ Ran(Len(hist))
    /\ Fetched(Len(hist)) = 4096 + 7 * 128 + 48 + 4
    /\ panic # NoPanic
    /\ numbered_registers[0] = DataBase + 2

(***************************************************************************)
(* Program load.  SpecLoad: legacy images at 0x0000, 0x4400, 0x4401,       *)
(* 0xFFFC and 0xFFFD with up to five code bytes, the conversions of two of *)
(* them, and tagged images with no segment, with a segment over the vector *)
(* written after it, with a segment across 0xFFFF, and cut short.          *)
(***************************************************************************)
\* the bound on the number of operations of a run of SpecLoad
MaxLoadOps == 2

LegacyImages ==
    { s \o code :
        s \in {<<0, 0>>, <<68, 0>>, <<68, 1>>, <<255, 252>>, <<255, 253>>},
        code \in {<< >>, <<67>>, <<67, 21>>, <<1, 2, 3, 4>>, <<1, 2, 3, 4, 5>>} }

TaggedImages ==
    { convert_code_fmt(<<68, 1, 67, 21>>),
      convert_code_fmt(<<255, 252, 1, 2, 3, 4>>),
      <<255, 255, 0, 0>>,
      <<255, 255, 0, 2, 255, 254, 0, 2, 68, 0, 255, 255, 0, 1, 9>>,
      <<255, 255, 0, 1, 255, 255, 0, 2, 1, 2>>,
      <<255, 255, 0, 1, 68, 0, 0, 2, 67>>,
      <<255, 255>> }

LoadMachines ==
    { Machine(c, a, 17152, f, 17663, 0, WriteWords(BaseMemory, 65534, <<17411>>)) :
        c \in BOOLEAN, a \in {0, CodeBase}, f \in {0, CARRY} }

\* images of fewer than 2 bytes
ShortImages == {<< >>, <<68>>}

EnvLoad ==
    [vectors |-> {65440}, images |-> LegacyImages \cup TaggedImages \cup ShortImages,
     writes |-> {<<65535, 4660>>}, budget |-> MaxLoadOps]

InitLoad == InitFrom(LoadMachines, EnvLoad)

SpecLoad == InitLoad /\ [][Next]_vars

\* the i-th operation is a load that completed
Loaded(i) == Did(i, "load_code") /\ After(i).panic = NoPanic

\* an image without the marker 0xffff
IsLegacy(image) == Len(image) >= 2 /\ (image[1] # 255 \/ image[2] # 255)

\* the start address of a legacy image
StartOf(image) == image[1] * 256 + image[2]

\* the address of the k-th code byte of a legacy image
CodeAddress(image, k) == (StartOf(image) + k - 1) % 65536

\* what C20 says of the i-th operation, for the code bytes at the addresses
\* of the set cells
LoadHolds(i, cells) ==
    LET image == hist[i].arg
    IN  /\ IsLegacy(image)
           => /\ \A k \in 1..(Len(image) - 2) :
                     CodeAddress(image, k) \in cells
                     => ByteAt(After(i).memory, CodeAddress(image, k)) = image[k + 2]
              /\ WordAt(After(i).memory, 65534) = StartOf(image)
              /\ After(i).pc = StartOf(image) - (StartOf(image) % 2)
              /\ After(i) = load_code(hist[i].before, convert_code_fmt(image))
        /\ ~IsLegacy(image)
           => After(i).pc = WordAt(After(i).memory, 65534)
                              - (WordAt(After(i).memory, 65534) % 2)

C20_TaggedWitness ==
    /\ Loaded(Len(hist))
    /\ hist[Len(hist)].arg
         = <<255, 255, 0, 2, 255, 254, 0, 2, 68, 0, 255, 255, 0, 1, 9>>
    /\ pc = 17416

RECURSIVE SegmentsFit(_, _, _)
\* the count segments declared from index on lie within the image
SegmentsFit(image, index, count) ==
    \/ count = 0
    \/ /\ index + 4 <= Len(image)
       /\ index + 4 + image[index + 3] * 256 + image[index + 4] <= Len(image)
       /\ SegmentsFit(image, index + 4 + image[index + 3] * 256 + image[index + 4],
                      count - 1)

\* an image of fewer than 2 bytes, or a tagged image cut short
IsMalformed(image) ==
    \/ Len(image) < 2
    \/ /\ image[1] = 255 /\ image[2] = 255
       /\ (Len(image) < 4 \/ ~SegmentsFit(image, 4, image[3] * 256 + image[4]))

\* C21: for an image with fewer than 2 bytes, or a segment whose declared
\* length exceeds the remaining bytes, the load operation returns to its
\* caller (it does not abort the process), and machine state is changed only
\* by the bytes already written before the defect was reached: the registers
\* are as before and every changed memory cell holds a byte of the image.
C21_MalformedLoadIsReported ==
    \A i \in 1..Len(hist) :
        (Did(i, "load_code") /\ IsMalformed(hist[i].arg))
        => /\ After(i).panic = NoPanic
           /\ After(i).pc = hist[i].before.pc
           /\ After(i).sp = hist[i].before.sp
           /\ After(i).sr = hist[i].before.sr
           /\ After(i).numbered_registers = hist[i].before.numbered_registers
           /\ \A x \in DOMAIN After(i).memory \cup DOMAIN hist[i].before.memory :
                  ByteAt(After(i).memory, x) # ByteAt(hist[i].before.memory, x)
                  => \E k \in 1..Len(hist[i].arg) :
                         hist[i].arg[k] = ByteAt(After(i).memory, x)

\* the tagged image of a 2-byte segment holding 1 byte: the process is over,
\* with the byte written at 0x4400
C21_TruncatedLoadPanics ==
    /\ Did(Len(hist), "load_code")
    /\ hist[Len(hist)].arg = <<255, 255, 0, 1, 68, 0, 0, 2, 67>>
    /\ panic # NoPanic
    /\ ByteAt(memory, 17408) = 67

\* an image of one byte: the process is over
C21_ShortLoadPanics ==
    /\ Did(Len(hist), "load_code")
    /\ hist[Len(hist)].arg = <<68>>
    /\ panic # NoPanic

(***************************************************************************)
(* The run loop: SharedMemorySystem and actually_run.  The shared memory   *)
(* is a sparse function of its nonzero bytes: 0..0xffff mirror the memory, *)
(* 0x10000..0x1001f the registers, 0x10020 is the command byte, followed   *)
(* by the arguments of the command.                                        *)
(***************************************************************************)
\* const CMD: usize = 0x10020
CMD == 65568

\* SharedMemorySystem::read_byte
SharedMemorySystem_read_byte(s, idx) == IF idx \in DOMAIN s THEN s[idx] ELSE 0

\* SharedMemorySystem::write_byte
SharedMemorySystem_write_byte(s, idx, value) ==
    IF value = 0
    THEN [x \in (DOMAIN s) \ {idx} |-> s[x]]
    ELSE [x \in (DOMAIN s) \cup {idx} |-> IF x = idx THEN value ELSE s[x]]

RECURSIVE SharedMemorySystem_read_string(_, _)
\* SharedMemorySystem::read_string: the bytes from idx up to the first 0
SharedMemorySystem_read_string(s, idx) ==
    IF SharedMemorySystem_read_byte(s, idx) = 0 THEN << >>
    ELSE <<SharedMemorySystem_read_byte(s, idx)>>
             \o SharedMemorySystem_read_string(s, idx + 1)

\* the byte SharedMemorySystem::write stores at idx < 0x10020
mirror_byte(computer, idx) ==
    IF idx < U16 THEN MemoryMap_get_byte(computer.memory, idx)
    ELSE LET reg_val == get_register_word(computer, (idx - U16) \div 2)
         IN  IF idx % 2 = 0 THEN Shr(BitAnd(reg_val, 65280), 8)
             ELSE BitAnd(reg_val, 255)

\* SharedMemorySystem::write with the low byte of each register first
SharedMemorySystem_write_low_first(s, computer) ==
    LET swapped(x) == IF x < U16 THEN x ELSE IF x % 2 = 0 THEN x + 1 ELSE x - 1
        cells == { x \in (DOMAIN computer.memory) \cup (U16..(CMD - 1)) :
                       mirror_byte(computer, swapped(x)) # 0 }
    IN  [x \in cells \cup { y \in DOMAIN s : y >= CMD } |->
            IF x < CMD THEN mirror_byte(computer, swapped(x)) ELSE s[x]]

\* SharedMemorySystem::write
SharedMemorySystem_write(s, computer) ==
    LET cells == { x \in (DOMAIN computer.memory) \cup (U16..(CMD - 1)) :
                       mirror_byte(computer, x) # 0 }
    IN  [x \in cells \cup { y \in DOMAIN s : y >= CMD } |->
            IF x < CMD THEN mirror_byte(computer, x) ELSE s[x]]

\* the u16 of the bytes at idx and idx + 1
read_u16(s, idx) ==
    BitOr(Shl16(SharedMemorySystem_read_byte(s, idx), 8),
          SharedMemorySystem_read_byte(s, idx + 1))

\* SharedMemorySystem::get_command that takes the id 7 for Stop
get_command_7_is_stop(s) ==
    LET cmd_id == SharedMemorySystem_read_byte(s, CMD)
        none == [kind |-> "None", a |-> 0, b |-> 0, path |-> << >>]
    IN  IF cmd_id = 0 THEN none
        ELSE IF cmd_id = 1 \/ cmd_id = 7 THEN [none EXCEPT !.kind = "Stop"]
        ELSE IF cmd_id = 2 THEN [none EXCEPT !.kind = "Run"]
        ELSE IF cmd_id = 3
        THEN [none EXCEPT !.kind = "Step", !.a = read_u16(s, CMD + 1)]
        ELSE IF cmd_id = 4
        THEN [none EXCEPT !.kind = "LoadFile",
                          !.path = SharedMemorySystem_read_string(s, CMD + 1)]
        ELSE IF cmd_id = 5
        THEN [none EXCEPT !.kind = "SetMem", !.a = read_u16(s, CMD + 1),
                          !.b = read_u16(s, CMD + 3)]
        ELSE IF cmd_id = 6
        THEN [none EXCEPT !.kind = "Interrupt", !.a = read_u16(s, CMD + 1)]
        ELSE [none EXCEPT !.kind = "Unknown"]

\* SharedMemorySystem::get_command
get_command(s) ==
    LET cmd_id == SharedMemorySystem_read_byte(s, CMD)
        none == [kind |-> "None", a |-> 0, b |-> 0, path |-> << >>]
    IN  IF cmd_id = 0 THEN none
        ELSE IF cmd_id = 1 THEN [none EXCEPT !.kind = "Stop"]
        ELSE IF cmd_id = 2 THEN [none EXCEPT !.kind = "Run"]
        ELSE IF cmd_id = 3
        THEN [none EXCEPT !.kind = "Step", !.a = read_u16(s, CMD + 1)]
        ELSE IF cmd_id = 4
        THEN [none EXCEPT !.kind = "LoadFile",
                          !.path = SharedMemorySystem_read_string(s, CMD + 1)]
        ELSE IF cmd_id = 5
        THEN [none EXCEPT !.kind = "SetMem", !.a = read_u16(s, CMD + 1),
                          !.b = read_u16(s, CMD + 3)]
        ELSE IF cmd_id = 6
        THEN [none EXCEPT !.kind = "Interrupt", !.a = read_u16(s, CMD + 1)]
        ELSE [none EXCEPT !.kind = "Unknown"]

\* SharedMemorySystem::acknowledge_command that leaves the command byte
acknowledge_command_skipped(s) == s

\* SharedMemorySystem::acknowledge_command
acknowledge_command(s) == SharedMemorySystem_write_byte(s, CMD, 0)

\* const CHECK_EVERY: u128 = 1_000_000, scaled down; the counts of the Step
\* commands stay below it, as 65535 is below 1_000_000
CHECK_EVERY == 2

\* the run modes
Stopped == [kind |-> "Stopped", count |-> 0]
Running == [kind |-> "Running", count |-> 0]
Stepping(count) == [kind |-> "Stepping", count |-> count]

\* the match on run_mode whose Running arm does not count the iteration
run_mode_arm_no_count(m, mode, n) ==
    IF mode.kind = "Stopped"
    THEN [m |-> m, run_mode |-> mode, iters |-> n, handle_commands |-> TRUE]
    ELSE IF mode.kind = "Running"
    THEN [m |-> step(m), run_mode |-> mode, iters |-> n, handle_commands |-> FALSE]
    ELSE [m |-> step(m),
          run_mode |-> IF mode.count <= 1 THEN Stopped ELSE Stepping(mode.count - 1),
          iters |-> n + 1, handle_commands |-> FALSE]

\* the match on run_mode of one iteration: [m, run_mode, iters, handle_commands]
run_mode_arm(m, mode, n) ==
    IF mode.kind = "Stopped"
    THEN [m |-> m, run_mode |-> mode, iters |-> n, handle_commands |-> TRUE]
    ELSE IF mode.kind = "Running"
    THEN [m |-> step(m), run_mode |-> mode, iters |-> n + 1, handle_commands |-> FALSE]
    ELSE [m |-> step(m),
          run_mode |-> IF mode.count <= 1 THEN Stopped ELSE Stepping(mode.count - 1),
          iters |-> n + 1, handle_commands |-> FALSE]

\* the match on cmd, for a command other than None: [m, run_mode]
command_arm(m, mode, cmd, files) ==
    IF cmd.kind = "Stop" THEN [m |-> m, run_mode |-> Stopped]
    ELSE IF cmd.kind = "Run" THEN [m |-> m, run_mode |-> Running]
    ELSE IF cmd.kind = "Step" THEN [m |-> m, run_mode |-> Stepping(cmd.a)]
    ELSE IF cmd.kind = "LoadFile"
    THEN [m |-> IF cmd.path \in DOMAIN files
                THEN load_code(reset(m), files[cmd.path])
                ELSE Panic(reset(m), "file_not_found"),
          run_mode |-> Stopped]
    ELSE IF cmd.kind = "SetMem"
    THEN [m |-> [m EXCEPT !.memory = MemoryMap_set_word(@, cmd.a, cmd.b)],
          run_mode |-> mode]
    ELSE IF cmd.kind = "Interrupt"
    THEN [m |-> interrupt(m, cmd.a), run_mode |-> mode]
    ELSE [m |-> m, run_mode |-> mode]

\* the machine is now m
Becomes(m) ==
    /\ pc' = m.pc
    /\ sp' = m.sp
    /\ sr' = m.sr
    /\ numbered_registers' = m.numbered_registers
    /\ memory' = m.memory
    /\ panic' = m.panic
    /\ UNCHANGED <<overflow_checks, hist, env>>

\* the process runs and the loop has iterations left in this run; the test
\* of a cleared flag, which ends the loop, needs none
LoopAlive == panic = NoPanic /\ (running => trace.iterations < env.budget)

\* the command byte holds a command
Pending == SharedMemorySystem_read_byte(shmem, CMD) # 0

\* the top of a loop that does not test the flag: loop { match run_mode .. }
LoopTopWithoutTest ==
    /\ at = "top" /\ panic = NoPanic /\ trace.iterations < env.budget
    /\ LET r == run_mode_arm(Cur, run_mode, iters)
       IN  /\ Becomes(r.m)
           /\ run_mode' = r.run_mode
           /\ iters' = r.iters
           /\ handle_commands' = r.handle_commands
           /\ at' = "poll"
           /\ trace' = [trace EXCEPT
                  !.iterations = @ + 1,
                  !.stepped = IF run_mode.kind = "Stopped" THEN @ ELSE @ + 1,
                  !.waited = IF Pending THEN @ + 1 ELSE @]
           /\ UNCHANGED <<running, shmem>>

\* while running.load(..): the test of the flag and the match on run_mode
LoopTop ==
    /\ at = "top" /\ LoopAlive
    /\ IF ~running
       THEN /\ at' = "done"
            /\ UNCHANGED <<pc, sp, sr, numbered_registers, memory, panic,
                           overflow_checks, hist, env, running, run_mode, iters,
                           handle_commands, shmem, trace>>
       ELSE LET r == run_mode_arm(Cur, run_mode, iters)
            IN  /\ Becomes(r.m)
                /\ run_mode' = r.run_mode
                /\ iters' = r.iters
                /\ handle_commands' = r.handle_commands
                /\ at' = "poll"
                /\ trace' = [trace EXCEPT
                       !.iterations = @ + 1,
                       !.stepped = IF run_mode.kind = "Stopped" THEN @ ELSE @ + 1,
                       !.waited = IF Pending THEN @ + 1 ELSE @]
                /\ UNCHANGED <<running, shmem>>

\* if handle_commands || iters > CHECK_EVERY { .. }: the rest of the iteration
LoopPoll ==
    /\ at = "poll" /\ panic = NoPanic
    /\ at' = "top"
    /\ UNCHANGED <<running, handle_commands>>
    /\ IF handle_commands \/ iters > CHECK_EVERY
       THEN LET cmd == get_command(shmem)
                r == command_arm(Cur, run_mode, cmd, env.files)
            IN  /\ iters' = 0
                /\ IF cmd.kind = "None"
                   THEN /\ shmem' = SharedMemorySystem_write(shmem, Cur)
                        /\ UNCHANGED <<pc, sp, sr, numbered_registers, memory, panic,
                                       overflow_checks, hist, env, run_mode, trace>>
                   ELSE /\ Becomes(r.m)
                        /\ run_mode' = r.run_mode
                        /\ shmem' = IF r.m.panic # NoPanic THEN shmem
                                    ELSE SharedMemorySystem_write(
                                             acknowledge_command(shmem), r.m)
                        /\ trace' = [trace EXCEPT !.accepted = cmd, !.stepped = 0,
                                                  !.processed = @ + 1]
       ELSE UNCHANGED <<pc, sp, sr, numbered_registers, memory, panic,
                        overflow_checks, hist, env, run_mode, iters, shmem, trace>>

RECURSIVE write_bytes(_, _, _)
\* the bytes bs stored in the shared memory from idx on, the last one first
write_bytes(s, idx, bs) ==
    IF bs = << >> THEN s
    ELSE SharedMemorySystem_write_byte(write_bytes(s, idx + 1, Tail(bs)), idx, Head(bs))

\* the iterations the loop may start before it polls a command written now
Allowance ==
    IF run_mode.kind = "Running" THEN CHECK_EVERY + 1
    ELSE IF run_mode.kind = "Stepping"
    THEN (IF run_mode.count <= 1 THEN 1 ELSE run_mode.count) + 1
    ELSE 1

\* the client of the shared memory writes a command, the arguments before
\* the command byte, once the last one is acknowledged
ClientWrite ==
    /\ at \in {"top", "poll"} /\ panic = NoPanic /\ running
    /\ ~Pending
    /\ trace.commands < env.commands
    /\ \E c \in env.requests :
           /\ shmem' = write_bytes(shmem, CMD, c)
           /\ trace' = [trace EXCEPT !.commands = @ + 1, !.waited = 0,
                                     !.allowance = Allowance,
                                     !.written_in = run_mode.kind]
    /\ UNCHANGED <<pc, sp, sr, numbered_registers, memory, panic, overflow_checks,
                   hist, env, running, run_mode, iters, handle_commands, at>>

\* the Ctrl-C handler: r.store(false, ..)
CtrlC ==
    /\ at \in {"top", "poll"} /\ panic = NoPanic /\ running
    /\ running' = FALSE
    /\ UNCHANGED <<pc, sp, sr, numbered_registers, memory, panic, overflow_checks,
                   hist, env, run_mode, iters, handle_commands, shmem, at, trace>>

NextLoop == LoopTop \/ LoopPoll \/ ClientWrite \/ CtrlC

\* the start of actually_run: a fresh shared memory, Computer::new, Stopped
InitLoopFrom(e) ==
    /\ \E c \in BOOLEAN :
           /\ pc = Computer_new(c).pc
           /\ sp = Computer_new(c).sp
           /\ sr = Computer_new(c).sr
           /\ numbered_registers = Computer_new(c).numbered_registers
           /\ memory = Computer_new(c).memory
           /\ overflow_checks = c
    /\ panic = NoPanic
    /\ hist = << >>
    /\ env = e
    /\ running = TRUE
    /\ run_mode = Stopped
    /\ iters = 0
    /\ handle_commands = FALSE
    /\ shmem = << >>
    /\ at = "top"
    /\ trace = [iterations |-> 0, commands |-> 0, processed |-> 0, stepped |-> 0,
                waited |-> 0, allowance |-> 0, written_in |-> "Stopped",
                accepted |-> get_command(<< >>)]

\* the bound on the iterations of the loop in a run of SpecLoop
MaxIterations == 6

\* the bound on the commands the client writes in a run of SpecLoop
MaxCommands == 2

\* BIS #0x18, SR (GIE and CPUOFF) at 0x4400, loaded as a legacy image
HaltingImage == <<68, 0, 208, 50, 0, 24>>

\* the files of the file system, by path
Files == (<<97>> :> HaltingImage) @@ (<<98>> :> <<255, 255, 0, 1, 68, 0, 0, 2, 67>>)

\* Stop, Run, Step(0..CHECK_EVERY), LoadFile("a"), LoadFile("b"),
\* LoadFile("c"), SetMem(0x0000, 0xd232), Interrupt(0xffa0), and the ids 7
\* and 255
Requests ==
    {<<1>>, <<2>>, <<4, 97, 0>>, <<4, 98, 0>>, <<4, 99, 0>>, <<5, 0, 0, 210, 50>>,
     <<6, 255, 160>>, <<7>>, <<255>>}
    \cup { <<3, 0, n>> : n \in 0..CHECK_EVERY }

EnvLoop ==
    [vectors |-> {}, images |-> {}, writes |-> {}, budget |-> MaxIterations,
     commands |-> MaxCommands, files |-> Files, requests |-> Requests]

InitLoop == InitLoopFrom(EnvLoop)

SpecLoop == InitLoop /\ [][NextLoop]_vars

(***************************************************************************)
(* The run loop, on SpecLoop.                                              *)
(***************************************************************************)
\* C22: for every count n, after the run loop accepts a Step(n) command it
\* performs exactly n calls to step() and then the run mode is Stopped (with
\* no further steps until a new command): while Step(n) is the last command
\* accepted, the calls made so far are n less the count left, and n once the
\* mode is Stopped.
C22_SteppingStepsNTimes ==
    (at # "off" /\ trace.accepted.kind = "Step")
    => /\ run_mode.kind \in {"Stepping", "Stopped"}
       /\ run_mode.kind = "Stepping" => trace.stepped = trace.accepted.a - run_mode.count
       /\ run_mode.kind = "Stopped" => trace.stepped = trace.accepted.a

\* Step(0) was accepted and step() was called once: PC went from 0 to 2
C22_StepZeroStepsOnce ==
    /\ at # "off"
    /\ trace.accepted.kind = "Step" /\ trace.accepted.a = 0
    /\ trace.processed = 1
    /\ run_mode = Stopped
    /\ trace.stepped = 1
    /\ pc = 2

\* the byte at idx of a shared memory
SharedAt(s, idx) == IF idx \in DOMAIN s THEN s[idx] ELSE 0

\* register i of the machine with these fields
RegisterOf(pcv, spv, srv, regs, i) ==
    CASE i = 0 -> pcv
      [] i = 1 -> spv
      [] i = 2 -> srv
      [] i = 3 -> 0
      [] OTHER -> regs[i - 4]

\* bytes 0..0xFFFF of s are the memory mem, bytes 0x10000+2i and +2i+1 the
\* high and low byte of register i for i in 0..15
MirrorIs(s, pcv, spv, srv, regs, mem) ==
    /\ \A x \in { y \in DOMAIN s : y < 65536 } \cup DOMAIN mem :
           SharedAt(s, x) = ByteAt(mem, x)
    /\ \A i \in 0..15 :
           /\ SharedAt(s, 65536 + 2 * i) = RegisterOf(pcv, spv, srv, regs, i) \div 256
           /\ SharedAt(s, 65536 + 2 * i + 1) = RegisterOf(pcv, spv, srv, regs, i) % 256

\* the mirror part of a shared memory
MirrorOf(s) == [x \in { y \in DOMAIN s : y < 65568 } |-> s[x]]

\* the loop is about to process the command in the command byte
Processes == at = "poll" /\ (handle_commands \/ iters > CHECK_EVERY) /\ Pending

C24_UnknownCommandIgnored ==
    [][ (Processes /\ at' = "top" /\ SharedAt(shmem, 65568) \notin 0..6)
        => /\ <<pc, sp, sr, numbered_registers, memory>>'
                = <<pc, sp, sr, numbered_registers, memory>>
           /\ run_mode' = run_mode
           /\ panic' = NoPanic /\ running' = running
           /\ SharedAt(shmem', 65568) = 0
      ]_vars

\* the id 255 was processed while Running: the mode is still Running
C24_Witness ==
    /\ at = "top"
    /\ trace.accepted.kind = "Unknown"
    /\ trace.processed = 2
    /\ run_mode = Running
    /\ SharedAt(shmem, 65568) = 0
    /\ panic = NoPanic
    /\ pc = 2 * (CHECK_EVERY + 1)

(***************************************************************************)
(* The run loop under fair scheduling: the thread of actually_run keeps    *)
(* being scheduled, so an iteration that can go on does.                   *)
(***************************************************************************)
\* the bound on the commands the client writes in a run of FairSpecLoop
MaxFairCommands == 3

\* Stop, Run, Step(CHECK_EVERY), LoadFile("a"), LoadFile("c"),
\* SetMem(0x0000, 0x4332) (MOV #-1, SR: sets CPUOFF), Interrupt(0xffa0) and
\* the id 7
FairRequests ==
    {<<1>>, <<2>>, <<3, 0, CHECK_EVERY>>, <<4, 97, 0>>, <<4, 99, 0>>,
     <<5, 0, 0, 67, 50>>, <<6, 255, 160>>, <<7>>}

EnvFairLoop ==
    [vectors |-> {}, images |-> {}, writes |-> {}, budget |-> MaxIterations,
     commands |-> MaxFairCommands, files |-> Files, requests |-> FairRequests]

InitFairLoop == InitLoopFrom(EnvFairLoop)

\* the loop thread takes its next step: LoopTop or LoopPoll, told by the
\* position it leaves.  The guards are those of the two actions, and only
\* the two of them move the position
LoopThread ==
    /\ (at = "top" /\ LoopAlive) \/ (at = "poll" /\ panic = NoPanic)
    /\ at' \in {"top", "poll", "done"} \ {at}

\* the steps that move the position are the steps of LoopTop and LoopPoll
LoopThreadIsTheLoop == [][(at' # at) <=> (LoopTop \/ LoopPoll)]_vars

\* the thread of `run` is scheduled again and again: nothing in the loop
\* blocks, so weak fairness on its steps
FairSpecLoop == InitFairLoop /\ [][NextLoop]_vars /\ WF_at(LoopThread)

\* the process has ended: a panic, or Ctrl-C
Dead == panic # NoPanic \/ ~running

\* the run has used up its iterations
Exhausted == trace.iterations >= env.budget

\* C25: while the run loop is alive and no fatal instruction is executed,
\* every non-none command written to the command byte is eventually
\* processed and acknowledged in every run mode: in the next iteration when
\* Stopped, in the iteration after the remaining count when Stepping, and
\* after at most CHECK_EVERY + 1 loop iterations when Running, including
\* when the emulated CPU is halted with CPUOFF set.  The iterations the loop
\* has started since the command was written never exceed that allowance,
\* and the command byte is cleared in the end.
C25_CommandsEventuallyObserved ==
    /\ LoopThreadIsTheLoop
    /\ [](Pending => trace.waited <= trace.allowance)
    /\ [](Pending /\ trace.written_in = "Running" => trace.waited <= CHECK_EVERY + 1)
    /\ [](Pending /\ trace.written_in = "Stopped" => trace.waited <= 1)
    /\ (Pending ~> (~Pending \/ Dead \/ Exhausted))

\* a command written while Running with the CPU halted was processed after
\* CHECK_EVERY + 1 iterations
C25_Witness ==
    /\ at = "top"
    /\ trace.processed = 3
    /\ trace.written_in = "Running"
    /\ trace.waited = CHECK_EVERY + 1
    /\ Bit(sr, 4) = 1
    /\ ~Pending
    /\ panic = NoPanic

(***************************************************************************)
(* PUSH and the pushes of interrupt.                                       *)
(***************************************************************************)
\* a word-mode PUSH
IsWordPush(w) == IsSingle(w) /\ (w \div 128) % 8 = PUSH /\ ~ByteMode(w)

\* s - k modulo 2^16
Below(s, k) == (s + 65536 - k) % 65536

\* the i-th operation, a word-mode PUSH, left SP two below the SP its source
\* left, the pushed word at the new SP, and r4-r15 as its source left them
PushHolds(i) ==
    LET s == Source(i).m.sp
        v == Source(i).src
    IN  /\ After(i).panic = NoPanic
        /\ After(i).sp = Below(s, 2)
        /\ MemoryMap_get_word(After(i).memory, Below(s, 2)) = v
        /\ After(i).numbered_registers = Source(i).m.numbered_registers

\* the i-th operation, an accepted interrupt, pushed PC and then SR
InterruptPushHolds(i) ==
    LET s == hist[i].before.sp
    IN  /\ After(i).sp = Below(s, 4)
        /\ MemoryMap_get_word(After(i).memory, Below(s, 2)) = hist[i].before.pc
        /\ MemoryMap_get_word(After(i).memory, Below(s, 4)) = hist[i].before.sr

\* C26: for every even SP value s (s = 0 included) and every word v, after
\* a word-mode push of v, by a PUSH instruction or by interrupt, SP is
\* (s - 2) mod 2^16 and the memory word at the new SP is v; the write-target
\* of the operand of PUSH is not written.
C26_PushAsStated ==
    \A i \in 1..Len(hist) :
        /\ (Ran(i) /\ IsWordPush(Fetched(i))) => PushHolds(i)
        /\ (Did(i, "interrupt") /\ Bit(hist[i].before.sr, 3) = 1)
               => InterruptPushHolds(i)

\* the pushes made with SP at 2 or above (4 or above for the two pushes of
\* interrupt) are as stated
C26_PushAboveZero ==
    \A i \in 1..Len(hist) :
        /\ (Ran(i) /\ IsWordPush(Fetched(i)) /\ hist[i].before.sp >= 2)
               => PushHolds(i)
        /\ (Did(i, "interrupt") /\ Bit(hist[i].before.sr, 3) = 1
                /\ hist[i].before.sp >= 4)
               => InterruptPushHolds(i)

\* PUSH R4 with SP = 0: SP is 0xFFFC and the word there is not R4, which
\* lies at 0xFFFD
C26_PushAtZero ==
    /\ Len(hist) = 1
    /\ Did(1, "step")
    /\ Fetched(1) = 4612
    /\ hist[1].before.sp = 0
    /\ hist[1].before.sr = 0
    /\ panic = NoPanic
    /\ sp = 65532
    /\ MemoryMap_get_word(memory, 65532) # 17663
    /\ MemoryMap_get_word(memory, 65533) = 17663

(***************************************************************************)
(* RETI alone.                                                             *)
(***************************************************************************)
\* the i-th operation, a RETI, popped SR and then PC
RetiHolds(i) ==
    LET b == hist[i].before
    IN  /\ After(i).panic = NoPanic
        /\ After(i).sr = MemoryMap_get_word(b.memory, b.sp)
        /\ After(i).pc = 2 * (MemoryMap_get_word(b.memory, (b.sp + 2) % 65536) \div 2)
        /\ After(i).sp = (b.sp + 4) % 65536

\* C27: for every instruction word that decodes as RETI (top 6 bits 000100,
\* opcode bits 9..7 = 110, the canonical word 0x1300 included), after the
\* step SR is the memory word at the old SP, PC is the memory word at the
\* old SP + 2 with bit 0 cleared, and SP is the old SP + 4.
C27_RetiAsStated ==
    \A i \in 1..Len(hist) :
        (Ran(i) /\ IsReti(Fetched(i))) => RetiHolds(i)

\* with the operand field R3 and the stack below the top of memory RETI is
\* as stated
C27_RetiR3 ==
    \A i \in 1..Len(hist) :
        (Ran(i) /\ Fetched(i) = 4867 /\ hist[i].before.sp < 65532) => RetiHolds(i)

\* 0x1300 at 0x4400 with SP = 0x4400: SR and SP are popped, and PC is not
\* the word at 0x4402 (0) but the address after the RETI
C27_Reti1300KeepsPc ==
    /\ Len(hist) = 1
    /\ Did(1, "step")
    /\ Fetched(1) = 4864
    /\ hist[1].before.sp = 17408
    /\ hist[1].before.sr = 0
    /\ MemoryMap_get_word(hist[1].before.memory, 17410) = 0
    /\ panic = NoPanic
    /\ sr = 4864
    /\ sp = 17412
    /\ pc = CodeBase + 2

(***************************************************************************)
(* Interrupts while an interrupt is served.                                *)
(***************************************************************************)
\* the i-th operation is an interrupt taken with GIE set
Accepted(i) == Did(i, "interrupt") /\ Bit(hist[i].before.sr, 3) = 1

\* no operation strictly between the i-th and the j-th is a step that left
\* GIE set
NoStepSetsGie(i, j) ==
    \A k \in (i + 1)..(j - 1) : ~(Did(k, "step") /\ Bit(After(k).sr, 3) = 1)

CarryBefore(i) == Bit(hist[i].before.sr, 0)

\* the result of the i-th operation cut to its mode
TruncatedResult(i) ==
    LET w == 2 ^ Width(Fetched(i))
        o == Operands(i)
        opc == OpcodeField(Fetched(i))
    IN  CASE opc = 5 -> (o.d + o.s) % w
          [] opc = 6 -> (o.d + o.s + CarryBefore(i)) % w
          [] opc = 7 -> (o.d + 2 * w - o.s - 1 + CarryBefore(i)) % w
          [] OTHER -> (o.d + 2 * w - o.s) % w

\* the i-th operation is an ADD, ADDC, SUBC, SUB or CMP that ran to its end
IsArithmetic(i) == Executed(i) /\ OpcodeField(Fetched(i)) \in 5..9

\* the i-th operation writes its result to SR
ResultReplacesFlags(i) ==
    /\ OpcodeField(Fetched(i)) # 9
    /\ Operands(i).wt.kind = "REGISTER"
    /\ Operands(i).wt.register = 2

\* OVERFLOW after the i-th operation is the literal predicate: the previous
\* destination, as a number, is the sign bit of the source, and its own sign
\* bit is not that of the result
LiteralOverflow(i) ==
    LET k == Width(Fetched(i)) - 1
        o == Operands(i)
    IN  (Bit(After(i).sr, 8) = 1)
            <=> (o.d = Bit(o.s, k) /\ Bit(o.d, k) # Bit(TruncatedResult(i), k))

C29_CmpWitness ==
    /\ Len(hist) = 1
    /\ Executed(1)
    /\ Fetched(1) = Encode(9, 4, 0, 0, 0, 5)
    /\ Operands(1).s = 1
    /\ Operands(1).d = 0
    /\ numbered_registers[1] = 0
    /\ Bit(sr, 8) = 1

\* ADD R4,SR with R4 = 0xFFFF and SR = 0: the predicate is false and the
\* result written to SR has bit 8 set
C29_SrWitness ==
    /\ Len(hist) = 1
    /\ Executed(1)
    /\ Fetched(1) = Encode(5, 4, 0, 0, 0, 2)
    /\ Operands(1).s = 65535
    /\ Operands(1).d = 0
    /\ Bit(sr, 8) = 1

\* OVERFLOW after the i-th operation is the signed overflow of the comment
\* of _set_flags: source and previous destination have the same sign bit
\* and the result has the other
DocumentedOverflow(i) ==
    LET k == Width(Fetched(i)) - 1
        o == Operands(i)
    IN  (Bit(After(i).sr, 8) = 1)
            <=> (Bit(o.s, k) = Bit(o.d, k) /\ Bit(TruncatedResult(i), k) # Bit(o.d, k))

\* C30: after ADD, in byte and in word mode and for every pair of operands,
\* OVERFLOW is set exactly when the source and the previous destination
\* have the same sign bit and the sign bit of the result differs from it
\* (positive + positive = negative, or negative + negative = positive).
C30_SignedOverflowAsDocumented ==
    \A i \in 1..Len(hist) :
        (Executed(i) /\ OpcodeField(Fetched(i)) = 5) => DocumentedOverflow(i)

\* ADD R4,R5 with R4 = 1 and R5 = 0x7FFF: the sum is 0x8000, positive plus
\* positive is negative, and OVERFLOW is clear
C30_PositiveSumNegative ==
    /\ Len(hist) = 1
    /\ Executed(1)
    /\ Fetched(1) = Encode(5, 4, 0, 0, 0, 5)
    /\ Operands(1).s = 1
    /\ Operands(1).d = 32767
    /\ numbered_registers[1] = 32768
    /\ Bit(sr, 2) = 1
    /\ Bit(sr, 8) = 0

\* ADD.B R4,R5 with the low bytes 0x80 and 0x80: the sum is 0, negative
\* plus negative is positive, and OVERFLOW is clear
C30_NegativeSumPositive ==
    /\ Len(hist) = 1
    /\ Executed(1)
    /\ Fetched(1) = Encode(5, 4, 0, 1, 0, 5)
    /\ Operands(1).s = 128
    /\ Operands(1).d = 128
    /\ numbered_registers[1] = 0
    /\ Bit(sr, 8) = 0

(***************************************************************************)
(* SUB or CMP and a jump on the carry.  SpecCompare: SUB R4,R5 or          *)
(* CMP R4,R5 at 0x4400, in word and in byte mode, followed by JLO +1 or    *)
(* JHS +1, with R4 below, equal to and above R5.                           *)
(***************************************************************************)
\* the bound on the number of operations of a run of SpecCompare
MaxCompareOps == 2

CompareValues == {0, 1, 65535}

CompareMachines ==
    { Machine(c, CodeBase, 17152, f, a, b,
              WriteWords(BaseMemory, CodeBase,
                         <<Encode(op, 4, 0, bw, 0, 5), EncodeJump(k, 1)>>)) :
        c \in BOOLEAN, f \in {0, 1}, a \in CompareValues, b \in CompareValues,
        op \in {8, 9}, bw \in {0, 1}, k \in {2, 3} }

EnvCompare ==
    [vectors |-> {65440}, images |-> {<<68, 1, 67, 21>>},
     writes |-> {<<65535, 4660>>}, budget |-> MaxCompareOps]

InitCompare == InitFrom(CompareMachines, EnvCompare)

SpecCompare == InitCompare /\ [][Next]_vars

\* the i-th operation executed a SUB or a CMP
IsCompare(i) == Executed(i) /\ OpcodeField(Fetched(i)) \in {8, 9}

\* the j-th operation executed a jump and took it
JumpTaken(j) ==
    After(j).pc = (hist[j].before.pc + 2 + 2 * OffsetField(Fetched(j))) % 65536

\* the j-th operation executed a jump with the condition k, on the flags the
\* i-th left
JumpAfter(i, j, k) ==
    /\ j = i + 1
    /\ Executed(j)
    /\ IsJump(Fetched(j))
    /\ (Fetched(j) \div 1024) % 8 = k
    /\ OffsetField(Fetched(j)) # 0

\* C31: after CMP src,dst and after SUB src,dst CARRY is set iff dst >= src
\* as unsigned numbers, so that a following JHS/JC (condition 3) is taken
\* exactly when dst >= src and a following JLO/JNC (condition 2) exactly
\* when dst < src.
C31_UnsignedCompare ==
    \A i \in 1..Len(hist) :
        IsCompare(i) =>
            LET o == Operands(i)
            IN  /\ (Bit(After(i).sr, 0) = 1) <=> (o.d >= o.s)
                /\ \A j \in 1..Len(hist) :
                       /\ JumpAfter(i, j, 3) => (JumpTaken(j) <=> o.d >= o.s)
                       /\ JumpAfter(i, j, 2) => (JumpTaken(j) <=> o.d < o.s)

\* what the code does: CARRY is the borrow, JHS is taken when dst is lower
\* and JLO when dst is higher or the same
C31_CarryIsBorrow ==
    \A i \in 1..Len(hist) :
        IsCompare(i) =>
            LET o == Operands(i)
            IN  /\ (Bit(After(i).sr, 0) = 1) <=> (o.d < o.s)
                /\ \A j \in 1..Len(hist) :
                       /\ JumpAfter(i, j, 3) => (JumpTaken(j) <=> o.d < o.s)
                       /\ JumpAfter(i, j, 2) => (JumpTaken(j) <=> o.d >= o.s)

\* CMP R4,R5 with R4 = 1 and R5 = 0xFFFF, then JHS +1: CARRY is clear and
\* the jump is not taken, though 0xFFFF is higher than 1
C31_HigherNotTaken ==
    /\ Len(hist) = 2
    /\ IsCompare(1)
    /\ Fetched(1) = Encode(9, 4, 0, 0, 0, 5)
    /\ Operands(1).s = 1
    /\ Operands(1).d = 65535
    /\ Bit(hist[2].before.sr, 0) = 0
    /\ JumpAfter(1, 2, 3)
    /\ pc = CodeBase + 4

(***************************************************************************)
(* CMP and BIT.                                                            *)
(***************************************************************************)
\* the machine of the i-th operation once its operands are resolved
Resolved(i) ==
    LET w == Fetched(i)
    IN  get_dst(Source(i).m, w % 16, (w \div 128) % 2, ByteMode(w)).m

\* the i-th operation executed a CMP or a BIT
IsTest(i) == Executed(i) /\ OpcodeField(Fetched(i)) \in {9, 11}

\* the destination of the i-th operation is SR
DestinationIsSr(i) ==
    Operands(i).wt.kind = "REGISTER" /\ Operands(i).wt.register = 2

\* the destination of the i-th operation holds what it held when the
\* operands were resolved
DestinationKept(i) ==
    LET wt == Operands(i).wt
    IN  IF wt.kind = "REGISTER"
        THEN get_register_word(After(i), wt.register)
                 = get_register_word(Resolved(i), wt.register)
        ELSE WordAt(After(i).memory, wt.address)
                 = WordAt(hist[i].before.memory, wt.address)

\* nothing but SR differs from the machine with its operands resolved
OnlyFlagsWritten(i) ==
    /\ After(i).memory = hist[i].before.memory
    /\ After(i).pc = Resolved(i).pc
    /\ After(i).sp = Resolved(i).sp
    /\ After(i).numbered_registers = Resolved(i).numbered_registers

\* ZERO, NEGATIVE, CARRY and OVERFLOW after the i-th operation are those of
\* the subtraction of its operands: ZERO and NEGATIVE of the difference,
\* CARRY of the full result above the mode's maximum (dst below src), and
\* OVERFLOW the predicate of _set_flags
SubFlags(i) ==
    LET k == Width(Fetched(i)) - 1
        o == Operands(i)
        r == (o.d + 2 * (2 ^ (k + 1)) - o.s) % (2 ^ (k + 1))
        a == After(i).sr
    IN  /\ (Bit(a, 1) = 1) <=> (r = 0)
        /\ (Bit(a, 2) = 1) <=> (Bit(r, k) = 1)
        /\ (Bit(a, 0) = 1) <=> (o.d < o.s)
        /\ (Bit(a, 8) = 1) <=> (o.d = Bit(o.s, k) /\ Bit(o.d, k) # Bit(r, k))

\* the flags of BIT
BitFlags(i) ==
    LET k == Width(Fetched(i)) - 1
        o == Operands(i)
        r == BitAnd(o.d, o.s)
        a == After(i).sr
    IN  /\ (Bit(a, 1) = 1) <=> (r = 0)
        /\ (Bit(a, 2) = 1) <=> (Bit(r, k) = 1)
        /\ (Bit(a, 0) = 1) <=> (r # 0)
        /\ Bit(a, 8) = 0

\* the flags of the i-th operation, a CMP, a SUB that does not write to SR,
\* or a BIT
TestFlags(i) ==
    /\ OpcodeField(Fetched(i)) = 9 => SubFlags(i)
    /\ (OpcodeField(Fetched(i)) = 8 /\ ~DestinationIsSr(i)) => SubFlags(i)
    /\ OpcodeField(Fetched(i)) = 11 => BitFlags(i)

\* C32 as stated: after CMP or BIT the destination register or memory cell
\* holds its previous value for every operand pair and addressing mode;
\* CMP sets ZERO, NEGATIVE, CARRY, OVERFLOW as SUB does for the same
\* operands, and BIT sets ZERO and NEGATIVE from dst AND src, CARRY = NOT
\* ZERO and OVERFLOW = false.
C32_TestsNeverWriteAsStated ==
    \A i \in 1..Len(hist) :
        /\ IsTest(i) => (DestinationKept(i) /\ OnlyFlagsWritten(i))
        /\ Executed(i) => TestFlags(i)

\* C32: the same, the destination being any register but SR, or a memory
\* cell; with the destination SR the flags are set in it as described.
C32_TestsNeverWrite ==
    \A i \in 1..Len(hist) :
        /\ (IsTest(i) /\ ~DestinationIsSr(i)) => DestinationKept(i)
        /\ IsTest(i) => OnlyFlagsWritten(i)
        /\ Executed(i) => TestFlags(i)

\* CMP.B @R4+,0x4600(R6) with both operands 0x80: the cell is as it was,
\* R4 is one higher, ZERO is set, CARRY is clear
C32_Witness ==
    /\ Len(hist) = 1
    /\ IsTest(1)
    /\ Fetched(1) = Encode(9, 4, 1, 1, 3, 6)
    /\ Operands(1).s = 128
    /\ Operands(1).d = 128
    /\ ByteAt(memory, DataBase) = 128
    /\ numbered_registers[0] = DataBase + 1
    /\ Bit(sr, 1) = 1
    /\ Bit(sr, 0) = 0

\* BIT R4,R5 with R4 = 0x8000 and R5 = 0xFFFF: R5 is as it was, NEGATIVE and
\* CARRY are set, ZERO and OVERFLOW are clear
C32_BitWitness ==
    /\ Len(hist) = 1
    /\ IsTest(1)
    /\ Fetched(1) = Encode(11, 4, 0, 0, 0, 5)
    /\ Operands(1).s = 32768
    /\ Operands(1).d = 65535
    /\ numbered_registers[1] = 65535
    /\ sr % 8 = 5
    /\ Bit(sr, 8) = 0

\* CMP R4,SR with R4 = 1 and SR = 0: SR, the destination, holds the flags
\* of 0 - 1 (CARRY, NEGATIVE, OVERFLOW)
C32_SrWitness ==
    /\ Len(hist) = 1
    /\ IsTest(1)
    /\ Fetched(1) = Encode(9, 4, 0, 0, 0, 2)
    /\ Operands(1).s = 1
    /\ hist[1].before.sr = 0
    /\ sr = 261

(***************************************************************************)
(* RRC, SWPB, RRA, SXT.  SpecSingle: two instructions at 0x4400, in word   *)
(* and in byte mode; the first has the operand R5, PC, SP, SR, R3, @R4 or  *)
(* 2(R4); the second is the same instruction again for SWPB, and the same  *)
(* operation on R6 (0) for the others.                                     *)
(***************************************************************************)
\* the bound on the number of operations of a run of SpecSingle
MaxSingleOps == 2

\* a single-operand word
EncodeSingle(op, bw, as_, reg) == 4096 + op * 128 + bw * 64 + as_ * 16 + reg

\* the first instruction, its extension word if it has one, and the second
SingleProgram(op, bw, as_, reg) ==
    <<EncodeSingle(op, bw, as_, reg)>>
    \o (IF as_ = 1 THEN <<2>> ELSE << >>)
    \o <<IF op = SWPB THEN EncodeSingle(op, bw, as_, reg)
         ELSE EncodeSingle(op, bw, 0, 6)>>
    \o (IF as_ = 1 /\ op = SWPB THEN <<2>> ELSE << >>)

SingleValues == {0, 15, 16, 33023, 65535}

\* SR empty, CARRY, and CARRY with GIE and the bits 5 and 15
SingleFlags == {0, 1, 32809}

\* operand R5
SingleRegisterMachines ==
    { Machine(c, CodeBase, 17152, f, DataBase, x,
              WriteWords(BaseMemory, CodeBase, SingleProgram(op, bw, 0, 5))) :
        c \in BOOLEAN, f \in SingleFlags, x \in SingleValues,
        op \in RRC..SXT, bw \in {0, 1} }

\* operand PC, SP, SR, R3, @R4 or 2(R4), with R4 = 0x4600
SingleOtherMachines ==
    { Machine(c, CodeBase, 17152, f, DataBase, 0,
              WriteWords(WriteWords(BaseMemory, DataBase, <<33023, 15>>), CodeBase,
                         SingleProgram(op, bw, o[1], o[2]))) :
        c \in BOOLEAN, f \in {1, 32808}, op \in RRC..SXT, bw \in {0, 1},
        o \in {<<0, 0>>, <<0, 1>>, <<0, 2>>, <<0, 3>>, <<2, 4>>, <<1, 4>>} }

EnvSingle ==
    [vectors |-> {65440}, images |-> {<<68, 1, 67, 21>>},
     writes |-> {<<65535, 4660>>}, budget |-> MaxSingleOps]

InitSingle == InitFrom(SingleRegisterMachines \cup SingleOtherMachines, EnvSingle)

SpecSingle == InitSingle /\ [][Next]_vars

\* the i-th operation executed the single-operand instruction op
IsSingleOp(i, op) ==
    Executed(i) /\ IsSingle(Fetched(i)) /\ (Fetched(i) \div 128) % 8 = op

\* the operand of the i-th operation is one of r4-r15 or a memory cell
GeneralOperand(i) ==
    Source(i).wt.kind = "MEMORY"
        \/ (Source(i).wt.kind = "REGISTER" /\ Source(i).wt.register >= 4)

\* the operand of the i-th operation is SR
OperandIsSr(i) == Source(i).wt.kind = "REGISTER" /\ Source(i).wt.register = 2

\* what the operand of the i-th operation holds after it
OperandAfter(i) ==
    LET wt == Source(i).wt
    IN  IF wt.kind = "REGISTER" THEN get_register_word(After(i), wt.register)
        ELSE IF wt.kind = "MEMORY"
        THEN (IF ByteMode(Fetched(i)) THEN ByteAt(After(i).memory, wt.address)
              ELSE WordAt(After(i).memory, wt.address))
        ELSE 0

\* the operand rotated right through the carry
Rotated(i) ==
    (Source(i).src \div 2)
        + CarryBefore(i) * (2 ^ (Width(Fetched(i)) - 1))

\* the flags RRC leaves
RrcFlags(i) ==
    LET r == Rotated(i)
        a == After(i).sr
    IN  /\ Bit(a, 0) = Source(i).src % 2
        /\ Bit(a, 2) = Bit(r, Width(Fetched(i)) - 1)
        /\ (Bit(a, 1) = 1) <=> (r = 0)
        /\ Bit(a, 8) = 0

\* the j-th operation is the RRC after the RRC of the i-th
RrcChain(i, j) == j = i + 1 /\ IsSingleOp(i, RRC) /\ IsSingleOp(j, RRC)

\* C33 as stated: for every operand x and carry-in c the result of RRC is
\* x >> 1 with c in bit 15 (word mode) or bit 7 (byte mode), the new CARRY
\* is bit 0 of x, NEGATIVE is the top bit of the result, ZERO is set iff
\* the result is 0 and OVERFLOW is cleared; in a sequence of RRC the bit
\* shifted out of one operand becomes the top bit of the next.
C33_RrcAsStated ==
    \A i \in 1..Len(hist) :
        IsSingleOp(i, RRC) =>
            /\ OperandAfter(i) = Rotated(i)
            /\ RrcFlags(i)
            /\ \A j \in 1..Len(hist) :
                   RrcChain(i, j)
                   => Bit(OperandAfter(j), Width(Fetched(j)) - 1) = Source(i).src % 2

\* C33: the same, the result being stored where the operand is one of
\* r4-r15 or a memory cell, and the flags being those stated where the
\* operand is not SR.
C33_Rrc ==
    \A i \in 1..Len(hist) :
        IsSingleOp(i, RRC) =>
            /\ GeneralOperand(i) => OperandAfter(i) = Rotated(i)
            /\ ~OperandIsSr(i) => RrcFlags(i)
            /\ \A j \in 1..Len(hist) :
                   (RrcChain(i, j) /\ ~OperandIsSr(i) /\ GeneralOperand(j))
                   => Bit(OperandAfter(j), Width(Fetched(j)) - 1) = Source(i).src % 2

\* RRC R5 with R5 = 15 and the carry clear, then RRC R6 with R6 = 0:
\* R5 = 7 and R6 = 0x8000
C33_Witness ==
    /\ Len(hist) = 2
    /\ RrcChain(1, 2)
    /\ hist[1].before.sr = 0
    /\ Source(1).src = 15
    /\ numbered_registers[1] = 7
    /\ numbered_registers[2] = 32768
    /\ sr = 4

\* RRC R5 with R5 = 16 and the carry clear: R5 = 8 and CARRY is clear
C33_SixteenWitness ==
    /\ Len(hist) = 1
    /\ IsSingleOp(1, RRC)
    /\ hist[1].before.sr = 0
    /\ Source(1).src = 16
    /\ numbered_registers[1] = 8
    /\ sr = 0

\* RRC SR with SR = 1: the result 0x8000 is written over the flags
C33_SrWitness ==
    /\ Len(hist) = 1
    /\ IsSingleOp(1, RRC)
    /\ OperandIsSr(1)
    /\ hist[1].before.sr = 1
    /\ sr = 32768

(***************************************************************************)
(* SWPB.                                                                   *)
(***************************************************************************)
\* x with its two bytes exchanged
Swapped(x) == (x % 256) * 256 + (x \div 256)

\* registers and memory after the i-th operation are those its operand
\* resolution left
SameAsResolved(i) ==
    /\ After(i).memory = hist[i].before.memory
    /\ After(i).sr = hist[i].before.sr
    /\ After(i).sp = Source(i).m.sp
    /\ After(i).pc = Source(i).m.pc
    /\ After(i).numbered_registers = Source(i).m.numbered_registers

\* the j-th operation is the SWPB after the SWPB of the i-th, word for word
SwpbTwice(i, j) ==
    /\ j = i + 1
    /\ IsSingleOp(i, SWPB)
    /\ IsSingleOp(j, SWPB)
    /\ Fetched(j) = Fetched(i)

\* what C34 says of the SWPB of the i-th operation
SwpbHolds(i) ==
    IF ByteMode(Fetched(i))
    THEN SameAsResolved(i)
    ELSE /\ OperandAfter(i) = Swapped(Source(i).src)
         /\ After(i).sr = hist[i].before.sr
         /\ \A j \in 1..Len(hist) :
                SwpbTwice(i, j) => OperandAfter(j) = Source(i).src

\* C34: in word mode SWPB exchanges the high and the low byte of the
\* operand, so that two SWPB in a row restore it, and leaves SR unchanged;
\* in byte mode SWPB is a no-op: the operand register or memory cell, SR
\* and all other state are the same before and after, apart from the PC
\* advance of the fetch and of the operand decoding.
C34_Swpb ==
    \A i \in 1..Len(hist) : IsSingleOp(i, SWPB) => SwpbHolds(i)

\* the same holds in word mode with the operand in r4-r15 or in memory, and
\* in byte mode with the operand in memory
C34_SwpbElsewhere ==
    \A i \in 1..Len(hist) :
        (/\ IsSingleOp(i, SWPB)
         /\ GeneralOperand(i)
         /\ (ByteMode(Fetched(i)) => Source(i).wt.kind = "MEMORY"))
        => SwpbHolds(i)

\* SWPB.B R5 with R5 = 0x80FF: R5 is 0x00FF afterwards
C34_ByteModeClearsHighByte ==
    /\ Len(hist) = 1
    /\ IsSingleOp(1, SWPB)
    /\ Fetched(1) = EncodeSingle(SWPB, 1, 0, 5)
    /\ hist[1].before.numbered_registers[1] = 33023
    /\ numbered_registers[1] = 255
    /\ sr = hist[1].before.sr

(***************************************************************************)
(* The offset of a jump.                                                   *)
(***************************************************************************)
\* the i-th operation executed a jump whose condition held
TookJump(i) ==
    Executed(i) /\ IsJump(Fetched(i)) /\ Taken(Fetched(i), hist[i].before.sr)

\* x modulo 2^16, for x from -2^16 on
Mod16(x) == (x + 65536) % 65536

\* C35: the raw 10-bit field r of a jump is used as the offset r when
\* r <= 512 and as r - 1024 when r > 512; a taken jump with r = 512 moves PC
\* forward by 1024 bytes and one with r = 513 moves it back by 1022 bytes;
\* the new PC is (PC after fetch + 2 * offset) mod 2^16.
C35_JumpOffset ==
    \A i \in 1..Len(hist) :
        TookJump(i) =>
            LET r == Fetched(i) % 1024
                fetched == (hist[i].before.pc + 2) % 65536
            IN  /\ r <= 512 => After(i).pc = Mod16(fetched + 2 * r)
                /\ r > 512 => After(i).pc = Mod16(fetched + 2 * (r - 1024))
                /\ r = 512 => After(i).pc = Mod16(fetched + 1024)
                /\ r = 513 => After(i).pc = Mod16(fetched - 1022)

\* JMP with the field 512 at 0xFFFC: PC wraps to 0xFFFE + 1024 - 2^16 = 0x03FE
C35_Witness ==
    /\ Len(hist) = 1
    /\ TookJump(1)
    /\ Fetched(1) = EncodeJump(7, 512)
    /\ hist[1].before.pc = 65532
    /\ pc = 1022

\* JMP with the field 513 at 0: PC wraps to 2 - 1022 + 2^16 = 0xFC04
C35_BackWitness ==
    /\ Len(hist) = 1
    /\ TookJump(1)
    /\ Fetched(1) = EncodeJump(7, 513)
    /\ hist[1].before.pc = 0
    /\ pc = 64516

(***************************************************************************)
(* The bits of SR the flags do not use.  SpecFlags: one flag-setting       *)
(* instruction at 0x4400 with GIE and the bits 5 and 15 of SR set, the     *)
(* write target R5, SR or a memory cell.                                   *)
(***************************************************************************)
\* the bound on the number of operations of a run of SpecFlags
MaxFlagOps == 1

\* ADD, ADDC, SUBC, SUB, CMP, BIT, XOR, AND
FlagDoubleOpcodes == {5, 6, 7, 8, 9, 11, 14, 15}

\* RRC, RRA, SXT
FlagSingleOpcodes == {RRC, RRA, SXT}

FlagPrograms ==
    { <<Encode(op, 4, 0, bw, 0, dst)>> :
        op \in FlagDoubleOpcodes, bw \in {0, 1}, dst \in {5, 2} }
    \cup
    { <<Encode(op, 4, 1, bw, 0, 6), DataBase>> :
        op \in FlagDoubleOpcodes, bw \in {0, 1} }
    \cup
    { <<EncodeSingle(op, bw, 0, reg)>> :
        op \in FlagSingleOpcodes, bw \in {0, 1}, reg \in {5, 2} }
    \cup
    { <<EncodeSingle(op, bw, 2, 4)>> : op \in FlagSingleOpcodes, bw \in {0, 1} }

\* GIE with the bits 5 and 15; the same with CARRY; the same with CARRY,
\* ZERO, NEGATIVE and OVERFLOW
FlagWords == {32808, 32809, 33071}

\* R4 is the source of the double-operand instructions and the address of
\* the operand of the single-operand ones
FlagMachines ==
    { Machine(c, CodeBase, 17152, f, a, b,
              WriteWords(WriteWords(BaseMemory, DataBase, <<b>>), CodeBase, p)) :
        c \in BOOLEAN, f \in FlagWords, a \in {1, DataBase}, b \in {0, 33023},
        p \in FlagPrograms }

EnvFlags ==
    [vectors |-> {65440}, images |-> {<<68, 1, 67, 21>>},
     writes |-> {<<65535, 4660>>}, budget |-> MaxFlagOps]

InitFlags == InitFrom(FlagMachines, EnvFlags)

SpecFlags == InitFlags /\ [][Next]_vars

\* the i-th operation executed one of ADD, ADDC, SUB, SUBC, CMP, BIT, XOR,
\* AND, RRC, RRA, SXT
IsFlagSetting(i) ==
    /\ Executed(i)
    /\ \/ OpcodeField(Fetched(i)) \in FlagDoubleOpcodes
       \/ (IsSingle(Fetched(i)) /\ (Fetched(i) \div 128) % 8 \in FlagSingleOpcodes)

\* the write target of the i-th operation
WriteTarget(i) ==
    IF IsSingle(Fetched(i)) THEN Source(i).wt ELSE Operands(i).wt

\* the bits of a status word other than CARRY, ZERO, NEGATIVE and OVERFLOW
OtherBits(srv) == [k \in (0..15) \ {0, 1, 2, 8} |-> Bit(srv, k)]

\* C36: every flag-setting instruction (ADD, ADDC, SUB, SUBC, CMP, BIT,
\* XOR, AND, RRC, RRA, SXT) whose write target is not the status register
\* changes no bit of SR other than CARRY, ZERO, NEGATIVE and OVERFLOW: GIE,
\* CPUOFF and the undefined bits keep their values.
C36_OtherBitsKept ==
    \A i \in 1..Len(hist) :
        (/\ IsFlagSetting(i)
         /\ ~(WriteTarget(i).kind = "REGISTER" /\ WriteTarget(i).register = 2))
        => OtherBits(After(i).sr) = OtherBits(hist[i].before.sr)

\* ADD R4,R5 with R4 = 1, R5 = 0 and SR = 0x8029: CARRY is cleared, GIE and
\* the bits 5 and 15 are as they were
C36_Witness ==
    /\ Len(hist) = 1
    /\ IsFlagSetting(1)
    /\ Fetched(1) = Encode(5, 4, 0, 0, 0, 5)
    /\ Operands(1).s = 1
    /\ Operands(1).d = 0
    /\ hist[1].before.sr = 32809
    /\ sr = 32808

\* RRA.B @R4 on the byte 0x80 with SR = 0x812F: the flags become NEGATIVE
\* alone, the other bits stay
C36_ShiftWitness ==
    /\ Len(hist) = 1
    /\ IsFlagSetting(1)
    /\ Fetched(1) = EncodeSingle(RRA, 1, 2, 4)
    /\ Source(1).src = 128
    /\ hist[1].before.sr = 33071
    /\ sr = 32812

\* ADD R4,SR with R4 = 1 and SR = 0x8028: the sum is written over SR and
\* CARRY, not a carry of the addition, reads set
C36_SrWitness ==
    /\ Len(hist) = 1
    /\ IsFlagSetting(1)
    /\ Fetched(1) = Encode(5, 4, 0, 0, 0, 2)
    /\ Operands(1).s = 1
    /\ hist[1].before.sr = 32808
    /\ sr = 32809

(***************************************************************************)
(* Arithmetic at the top of memory.  SpecWrap: MOV R4,R5 at 0xFFFE; RETI   *)
(* (operand R3) with SP = 0xFFFC or 0xFFFE; MOV R4,0xFFFE(R4) and          *)
(* MOV 0xFFFE(R4),R5 with R4 = 0x4600.                                     *)
(***************************************************************************)
\* the bound on the number of operations of a run of SpecWrap
MaxWrapOps == 2

\* MOV R4,0xFFFE(R4) and MOV 0xFFFE(R4),R5
IndexedPrograms ==
    { <<Encode(4, 4, 1, 0, 0, 4), 65534>>, <<Encode(4, 4, 0, 0, 1, 5), 65534>> }

WrapMachines ==
    { Machine(c, 65534, 17152, 0, DataBase, 0,
              WriteWords(BaseMemory, 65534, <<Encode(4, 4, 0, 0, 0, 5)>>)) :
        c \in BOOLEAN }
    \cup
    { Machine(c, CodeBase, s, 0, DataBase, 0,
              WriteWords(WriteWords(BaseMemory, 65532, <<1, CodeBase + 256>>),
                         CodeBase, <<4867>>)) :
        c \in BOOLEAN, s \in {65532, 65534} }
    \cup
    { Machine(c, CodeBase, 17152, 0, DataBase, 0,
              WriteWords(WriteWords(BaseMemory, DataBase - 2, <<4660>>), CodeBase, p)) :
        c \in BOOLEAN, p \in IndexedPrograms }

EnvWrap ==
    [vectors |-> {65440}, images |-> {<<68, 1, 67, 21>>},
     writes |-> {<<65535, 4660>>}, budget |-> MaxWrapOps]

InitWrap == InitFrom(WrapMachines, EnvWrap)

SpecWrap == InitWrap /\ [][Next]_vars

\* the i-th operation is a step on a double-operand word with Ad = 1
IsIndexedDestination(i) ==
    /\ Ran(i)
    /\ OpcodeField(Fetched(i)) >= 4
    /\ (Fetched(i) \div 128) % 2 = 1

\* the offset word of the destination of the i-th operation, whose source
\* is a register
DestinationOffset(i) ==
    MemoryMap_get_word(hist[i].before.memory, (hist[i].before.pc + 2) % 65536)

\* what C37 says of the i-th operation, a step of a running machine
WrapHolds(i) ==
    LET b == hist[i].before
        a == After(i)
    IN  /\ a.panic # "overflow"
        /\ (b.pc = 65534 /\ Fetched(i) = Encode(4, 4, 0, 0, 0, 5)) => a.pc = 0
        /\ (IsReti(Fetched(i)) /\ b.sp \in {65532, 65534})
               => a.sp = (b.sp + 4) % 65536
        /\ (IsIndexedDestination(i) /\ Fetched(i) = Encode(4, 4, 1, 0, 0, 4))
               => /\ DestinationOffset(i) = 65534
                  /\ WordAt(a.memory, (DestinationOffset(i) + b.numbered_registers[0]) % 65536)
                         = b.numbered_registers[0]
                  /\ WordAt(a.memory, b.numbered_registers[0] - 2) = b.numbered_registers[0]

\* C37: all PC, SP and address arithmetic wraps modulo 2^16 and never makes
\* a step fail: a step with PC = 0xFFFE continues at PC = 0; RETI with
\* SP = 0xFFFC or 0xFFFE wraps SP; and a double-operand destination in
\* Indexed Mode (Ad = 1) is at (offset + register) mod 2^16, as a source in
\* Indexed Mode is, so that the offset 0xFFFE with a non-zero base register
\* addresses base - 2.
C37_ArithmeticWraps ==
    \A i \in 1..Len(hist) : Ran(i) => WrapHolds(i)

\* the same in a build without overflow checks
C37_WrapsWithoutChecks ==
    \A i \in 1..Len(hist) : (Ran(i) /\ ~overflow_checks) => WrapHolds(i)

\* the source in Indexed Mode wraps in every build: MOV 0xFFFE(R4),R5 reads
\* the word at R4 - 2
C37_SourceWraps ==
    \A i \in 1..Len(hist) :
        (Ran(i) /\ Fetched(i) = Encode(4, 4, 0, 0, 1, 5))
        => /\ After(i).panic # "overflow"
           /\ After(i).numbered_registers[1]
                  = WordAt(hist[i].before.memory, hist[i].before.numbered_registers[0] - 2)

\* a step with PC = 0xFFFE in a build with overflow checks: the step fails
\* on pc + 2
C37_StepAtTopFails ==
    /\ Len(hist) = 1
    /\ Did(1, "step")
    /\ hist[1].before.pc = 65534
    /\ overflow_checks
    /\ panic = "overflow"

\* MOV R4,0xFFFE(R4) in a build with overflow checks: the step fails on
\* offset + register
C37_IndexedDestinationFails ==
    /\ Len(hist) = 1
    /\ IsIndexedDestination(1)
    /\ Fetched(1) = Encode(4, 4, 1, 0, 0, 4)
    /\ overflow_checks
    /\ panic = "overflow"
    /\ memory = hist[1].before.memory

\* RETI with SP = 0xFFFE in a build with overflow checks: the step fails on
\* sp + 2
C37_RetiAtTopFails ==
    /\ Len(hist) = 1
    /\ Did(1, "step")
    /\ IsReti(Fetched(1))
    /\ hist[1].before.sp = 65534
    /\ overflow_checks
    /\ panic = "overflow"

\* MOV R4,0xFFFE(R4) in a build without overflow checks: R4 is written at
\* R4 - 2
C37_IndexedDestinationWraps ==
    /\ Len(hist) = 1
    /\ IsIndexedDestination(1)
    /\ Fetched(1) = Encode(4, 4, 1, 0, 0, 4)
    /\ ~overflow_checks
    /\ panic = NoPanic
    /\ WordAt(memory, DataBase - 2) = DataBase

RECURSIVE SegmentCells(_, _, _)
\* the addresses covered by the count segments declared from index on, in an
\* image whose segments lie within it
SegmentCells(image, index, count) ==
    IF count = 0 THEN {}
    ELSE LET start_addr == pop_word(image, index)
             segment_length == pop_word(image, index + 2)
         IN  { (start_addr + offset) % 65536 : offset \in 0..(segment_length - 1) }
             \cup SegmentCells(image, index + 4 + segment_length, count - 1)

\* the addresses covered by the segments of an image that loads: those of
\* the tagged image the engine loads, which for a legacy image is the one
\* convert_code_fmt returns
Covered(image) ==
    LET tagged == IF IsLegacy(image) THEN convert_code_fmt(image) ELSE image
    IN  SegmentCells(tagged, 4, pop_word(tagged, 2))

\* the i-th operation left SP, SR, r4-r15 and the cells outside the set as
\* they were
LoadKeeps(i, cells) ==
    LET b == hist[i].before
        a == After(i)
    IN  /\ a.sp = b.sp
        /\ a.sr = b.sr
        /\ a.numbered_registers = b.numbered_registers
        /\ \A x \in (DOMAIN a.memory \cup DOMAIN b.memory) \ cells :
               ByteAt(a.memory, x) = ByteAt(b.memory, x)

\* C38: loading a program does not reset the machine: load_code and
\* load_code_fmt_new change only the memory cells covered by the segments of
\* the image and the program counter; SP, SR (a CARRY flag set beforehand
\* included), the registers 4-15 and every memory cell outside the segments
\* keep their values.
C38_LoadKeepsTheMachine ==
    \A i \in 1..Len(hist) : Loaded(i) => LoadKeeps(i, Covered(hist[i].arg))

\* the legacy image of 0x43 0x15 at 0x4401 is loaded into a machine with
\* CARRY set, SP = 0x4300, R4 = 0x44FF and the word 0x0313 at 0x5000: all
\* are kept, and PC has changed
C38_Witness ==
    /\ Len(hist) = 1
    /\ Loaded(1)
    /\ hist[1].arg = <<68, 1, 67, 21>>
    /\ hist[1].before.pc = 0
    /\ pc = 17408
    /\ sr = CARRY /\ sp = 17152 /\ numbered_registers[0] = 17663
    /\ WordAt(memory, 20480) = WordAt(hist[1].before.memory, 20480)
    /\ WordAt(memory, 20480) # 0
    /\ ByteAt(memory, 17409) = 67

\* the tagged image of two segments, the second over the byte at 0xFFFF, is
\* loaded into a machine with CARRY set: SR and SP are kept
C38_TaggedWitness ==
    /\ Len(hist) = 1
    /\ Loaded(1)
    /\ hist[1].arg = <<255, 255, 0, 2, 255, 254, 0, 2, 68, 0, 255, 255, 0, 1, 9>>
    /\ hist[1].before.sr = CARRY
    /\ sr = CARRY /\ sp = 17152
    /\ ByteAt(memory, 65535) = 9
    /\ pc = 17416

(***************************************************************************)
(* Cancellation, on FairSpecLoop.  The handler thread only stores the      *)
(* flag; a store that falls between the test of the flag and the step of   *)
(* an iteration is the CtrlC taken at "poll" of that iteration, as step()  *)
(* does not read the flag.                                                 *)
(***************************************************************************)
\* the loop has left `while running.load(..)`, or the process has panicked
Ended == at = "done" \/ panic # NoPanic

\* the fields of the Computer
Engine == <<pc, sp, sr, numbered_registers, memory>>

\* with the flag cleared: no iteration starts and step() is not called; the
\* test of the flag ends the loop at once; the iteration in progress ends
\* with its command handling, which alone may still change the machine; and
\* the flag stays cleared
AfterCancel ==
    [][ ~running
        => /\ ~running'
           /\ trace.iterations' = trace.iterations
           /\ trace.stepped' <= trace.stepped
           /\ at = "top" => (at' = "done" /\ Engine' = Engine /\ shmem' = shmem)
           /\ at = "poll" => at' = "top"
           /\ at = "done" => at' = "done"
      ]_vars

\* step() is called by LoopTop only, with the flag set, and whole: the
\* machine after it is the machine step() returns
StepsAreWhole ==
    [][ trace.iterations' # trace.iterations
        => /\ running /\ at = "top" /\ at' = "poll"
           /\ run_mode.kind # "Stopped"
              => /\ Engine' = <<step(Cur).pc, step(Cur).sp, step(Cur).sr,
                                step(Cur).numbered_registers, step(Cur).memory>>
                 /\ panic' = step(Cur).panic
           /\ run_mode.kind = "Stopped" => Engine' = Engine
      ]_vars

\* C39: cancellation is honoured between steps: once the shared running
\* flag is cleared (by the Ctrl-C handler thread), the run loop performs no
\* further step() after the loop iteration in progress and terminates, in
\* every run mode (Stopped, Running, Stepping) and whatever command is
\* pending; a step is never interrupted part-way.
C39_CancelBetweenSteps ==
    /\ LoopThreadIsTheLoop
    /\ AfterCancel
    /\ StepsAreWhole
    /\ (~running ~> Ended)

\* Ctrl-C while Running, in an iteration whose step is done and with a
\* command pending: the loop has ended after that iteration with no further
\* step (PC = 2 after the one step at 0)
C39_Witness ==
    /\ at = "done" /\ ~running
    /\ run_mode = Running
    /\ Pending
    /\ trace.iterations = 2
    /\ pc = 2
    /\ panic = NoPanic

\* Ctrl-C while Stepping with steps left: the loop has ended, the count is
\* not used up
C39_SteppingWitness ==
    /\ at = "done" /\ ~running
    /\ run_mode.kind = "Stepping" /\ run_mode.count >= 1
    /\ panic = NoPanic

\* Ctrl-C while Stopped: the loop has ended
C39_StoppedWitness ==
    /\ at = "done" /\ ~running
    /\ run_mode = Stopped
    /\ trace.processed >= 1
    /\ panic = NoPanic

(***************************************************************************)
(* The command channel, byte by byte.  SpecChannel: the controller reads   *)
(* the command byte, and when it reads 0 writes the parameter bytes of a   *)
(* command one by one and the id last; the loop reads the id, then the     *)
(* parameters, runs the arm, acknowledges, and writes the mirror.  Every   *)
(* read_volatile and write_volatile of a byte of the command block is a    *)
(* step of its own; the accesses are taken in program order.               *)
(***************************************************************************)
\* the bound on the iterations of the loop in a run of SpecChannel
MaxChannelIterations == 4

\* the bound on the commands the controller writes in a run of SpecChannel
MaxChannelCommands == 2

\* Stop, Run, Step(1), LoadFile("a"), LoadFile("c"), SetMem(0x0000, 0xd232),
\* SetMem(0x0102, 0x0304), Interrupt(0xffa0) and the id 7
ChannelRequests ==
    {<<1>>, <<2>>, <<3, 0, 1>>, <<4, 97, 0>>, <<4, 99, 0>>, <<5, 0, 0, 210, 50>>,
     <<5, 1, 2, 3, 4>>, <<6, 255, 160>>, <<7>>}

EnvChannel ==
    [vectors |-> {}, images |-> {}, writes |-> {}, budget |-> MaxChannelIterations,
     commands |-> MaxChannelCommands, files |-> Files, requests |-> ChannelRequests]

\* the controller is not writing a command
Idle == [state |-> "idle", c |-> << >>, k |-> 0]

\* the start of actually_run, with an idle controller
InitChannel ==
    /\ \E c \in BOOLEAN :
           /\ pc = Computer_new(c).pc
           /\ sp = Computer_new(c).sp
           /\ sr = Computer_new(c).sr
           /\ numbered_registers = Computer_new(c).numbered_registers
           /\ memory = Computer_new(c).memory
           /\ overflow_checks = c
    /\ panic = NoPanic
    /\ hist = << >>
    /\ env = EnvChannel
    /\ running = TRUE
    /\ run_mode = Stopped
    /\ iters = 0
    /\ handle_commands = FALSE
    /\ shmem = << >>
    /\ at = "top"
    /\ trace = [iterations |-> 0, commands |-> 0, stepped |-> 0, waited |-> 0,
                client |-> Idle, cmd_id |-> 0, written |-> << >>, applied |-> << >>,
                arms |-> 0]

\* if handle_commands || iters > CHECK_EVERY: the read of the command byte
\* in get_command; with 0 read, the None arm: mem.write(c); continue
PollId ==
    /\ at = "poll" /\ panic = NoPanic
    /\ UNCHANGED <<pc, sp, sr, numbered_registers, memory, panic, overflow_checks,
                   hist, env, running, run_mode, handle_commands>>
    /\ IF handle_commands \/ iters > CHECK_EVERY
       THEN LET cmd_id == SharedMemorySystem_read_byte(shmem, CMD)
            IN  /\ iters' = 0
                /\ IF cmd_id = 0
                   THEN /\ shmem' = SharedMemorySystem_write(shmem, Cur)
                        /\ at' = "top"
                        /\ UNCHANGED trace
                   ELSE /\ trace' = [trace EXCEPT !.cmd_id = cmd_id]
                        /\ at' = "args"
                        /\ UNCHANGED shmem
       ELSE /\ at' = "top"
            /\ UNCHANGED <<iters, shmem, trace>>

\* the command get_command returns with cmd_id read before and the
\* parameter bytes read now
command_read(s, cmd_id) == get_command(SharedMemorySystem_write_byte(s, CMD, cmd_id))

\* the rest of get_command, the reads of the parameters, and the match on
\* the command
PollArgs ==
    /\ at = "args" /\ panic = NoPanic
    /\ LET cmd == command_read(shmem, trace.cmd_id)
           r == command_arm(Cur, run_mode, cmd, env.files)
       IN  /\ Becomes(r.m)
           /\ run_mode' = r.run_mode
           /\ trace' = [trace EXCEPT !.applied = Append(@, cmd), !.stepped = 0,
                                     !.arms = @ + 1]
    /\ at' = "ack"
    /\ UNCHANGED <<running, iters, handle_commands, shmem>>

\* mem.acknowledge_command()
PollAck ==
    /\ at = "ack" /\ panic = NoPanic
    /\ shmem' = acknowledge_command(shmem)
    /\ at' = "mirror"
    /\ UNCHANGED <<pc, sp, sr, numbered_registers, memory, panic, overflow_checks,
                   hist, env, running, run_mode, iters, handle_commands, trace>>

\* mem.write(c), the end of the iteration
PollMirror ==
    /\ at = "mirror" /\ panic = NoPanic
    /\ shmem' = SharedMemorySystem_write(shmem, Cur)
    /\ at' = "top"
    /\ UNCHANGED <<pc, sp, sr, numbered_registers, memory, panic, overflow_checks,
                   hist, env, running, run_mode, iters, handle_commands, trace>>

\* the controller reads the command byte and, with 0 read, picks the
\* command it will write
ControllerCheck ==
    /\ panic = NoPanic
    /\ trace.client.state = "idle"
    /\ trace.commands < env.commands
    /\ SharedMemorySystem_read_byte(shmem, CMD) = 0
    /\ \E c \in env.requests :
           trace' = [trace EXCEPT !.client = [state |-> "writing", c |-> c, k |-> 2]]
    /\ UNCHANGED <<pc, sp, sr, numbered_registers, memory, panic, overflow_checks,
                   hist, env, running, run_mode, iters, handle_commands, shmem, at>>

\* the controller writes the next parameter byte of its command
ControllerParameter ==
    /\ panic = NoPanic
    /\ trace.client.state = "writing"
    /\ trace.client.k <= Len(trace.client.c)
    /\ shmem' = SharedMemorySystem_write_byte(shmem, CMD + trace.client.k - 1,
                                              trace.client.c[trace.client.k])
    /\ trace' = [trace EXCEPT !.client.k = @ + 1]
    /\ UNCHANGED <<pc, sp, sr, numbered_registers, memory, panic, overflow_checks,
                   hist, env, running, run_mode, iters, handle_commands, at>>

\* the controller writes the id of its command, the parameters written
ControllerId ==
    /\ panic = NoPanic
    /\ trace.client.state = "writing"
    /\ trace.client.k > Len(trace.client.c)
    /\ shmem' = SharedMemorySystem_write_byte(shmem, CMD, trace.client.c[1])
    /\ trace' = [trace EXCEPT !.client = Idle, !.commands = @ + 1,
                              !.written = Append(@, trace.client.c)]
    /\ UNCHANGED <<pc, sp, sr, numbered_registers, memory, panic, overflow_checks,
                   hist, env, running, run_mode, iters, handle_commands, at>>

NextChannel ==
    \/ LoopTop
    \/ PollId
    \/ PollArgs
    \/ PollAck
    \/ PollMirror
    \/ ControllerCheck
    \/ ControllerParameter
    \/ ControllerId

SpecChannel == InitChannel /\ [][NextChannel]_vars

\* the command the bytes c mean
Decoded(c) == get_command(write_bytes(<< >>, CMD, c))

\* the commands applied are the commands written, in their order and with
\* their parameters, none twice; at most the last one written is not applied
\* yet
AppliedAsWritten ==
    /\ Len(trace.applied) <= Len(trace.written)
    /\ Len(trace.written) <= Len(trace.applied) + 1
    /\ \A k \in 1..Len(trace.applied) : trace.applied[k] = Decoded(trace.written[k])

\* a command byte that reads 0 leaves no written command unapplied: the
\* acknowledgement has cleared the id of an applied command only
NoneLost ==
    SharedMemorySystem_read_byte(shmem, CMD) = 0
    => Len(trace.applied) = Len(trace.written)

\* a command byte that holds an id holds the id of the last command written,
\* which is applied when the loop is between the match and the
\* acknowledgement and at no other place
PendingIsLast ==
    SharedMemorySystem_read_byte(shmem, CMD) # 0
    => /\ trace.written # << >>
       /\ SharedMemorySystem_read_byte(shmem, CMD) = trace.written[Len(trace.written)][1]
       /\ Len(trace.applied) = Len(trace.written) <=> at = "ack"

\* an arm that runs is the arm of the last command written, run on the
\* machine as it is
ArmIsOfWritten ==
    [][ trace.arms' # trace.arms
        => LET r == command_arm(Cur, run_mode,
                                Decoded(trace.written[Len(trace.written)]), env.files)
           IN  /\ Len(trace.written) = trace.arms + 1
               /\ trace.arms' = trace.arms + 1
               /\ Engine' = <<r.m.pc, r.m.sp, r.m.sr, r.m.numbered_registers, r.m.memory>>
               /\ run_mode' = r.run_mode
      ]_vars

\* C40: exactly-once command processing: if the external controller writes
\* a command id only while the command byte reads 0 and writes the parameter
\* bytes before the id, then under every interleaving of controller writes
\* and run-loop polls each written command is applied to the machine exactly
\* once with the parameters the controller wrote: none is lost, duplicated
\* or overwritten by the acknowledgement.
C40_ExactlyOnce ==
    /\ [](AppliedAsWritten /\ NoneLost /\ PendingIsLast)
    /\ ArmIsOfWritten

\* SetMem(0x0102, 0x0304) written after Step(1), whose parameters it
\* overwrites byte by byte while the loop polls: both were applied, the
\* second with its own parameters
C40_Witness ==
    /\ Len(trace.applied) = 2
    /\ trace.written = <<<<3, 0, 1>>, <<5, 1, 2, 3, 4>>>>
    /\ trace.applied[2].kind = "SetMem"
    /\ trace.applied[2].a = 258 /\ trace.applied[2].b = 772
    /\ WordAt(memory, 258) = 772
    /\ at = "top"
    /\ SharedMemorySystem_read_byte(shmem, CMD) = 0
    /\ panic = NoPanic

\* the loop polls an empty command byte while the controller is between its
\* parameter bytes: nothing is applied
C40_PollWhileWriting ==
    /\ at = "top"
    /\ trace.iterations = 2
    /\ trace.client.state = "writing" /\ trace.client.k = 4
    /\ trace.client.c = <<5, 1, 2, 3, 4>>
    /\ trace.applied = << >>
    /\ SharedMemorySystem_read_byte(shmem, CMD + 1) = 1

====
